---- MODULE Spec2Model ----
(***************************************************************************)
(* The chess rules engine of Offline-Chess (src/engine.ts, class           *)
(* ChessGame) as a state machine.  The state is the engine's fields; the   *)
(* one operation that writes them is move(from, to).  The caller replays   *)
(* one of a few recorded games through move, then calls move freely.       *)
(*                                                                         *)
(* A second specification, SessionSpec, is the session layer (App.tsx):    *)
(* two connected players, each with an engine of its own, who click        *)
(* squares, start new games and receive each other's messages.             *)
(***************************************************************************)
EXTENDS Integers, Sequences, FiniteSets, TLC

VARIABLES
    board,        \* ChessGame.board: 8 rows of 8 squares, a piece or null
    turn,         \* ChessGame.turn: "w" or "b"
    deadPieces,   \* ChessGame.deadPieces: captured pieces, in capture order
    winner,       \* ChessGame.winner: "w", "b", "draw" or "null"
    line,         \* the recorded game the caller replays (an index of Lines)
    ply,          \* the number of calls of move that returned true
    mode,         \* the transport of the session: "p2p" (data channel) or "online" (socket)
    app,          \* per player colour, the state of that player's App component
    wire,         \* per player colour, the messages in flight towards that player
    budget        \* the moves and restarts the players have made so far, and the
                  \* games the server has ended

game == [board |-> board, turn |-> turn, deadPieces |-> deadPieces, winner |-> winner]
engineVars == <<board, turn, deadPieces, winner, line, ply>>
sessionVars == <<mode, app, wire, budget>>
vars == <<board, turn, deadPieces, winner, line, ply, mode, app, wire, budget>>

(***************************************************************************)
(* Types                                                                   *)
(***************************************************************************)
BoardSize == 8
Rows == 0 .. (BoardSize - 1)
Cols == 0 .. (BoardSize - 1)

\* A square holds a piece or null; null is a record so that the optional
\* chaining of the source (p?.type, p?.hasMoved) reads as a field access.
null == [type |-> "none", color |-> "none", hasMoved |-> FALSE]
Piece(t, c, m) == [type |-> t, color |-> c, hasMoved |-> m]
Position(r, c) == [row |-> r, col |-> c]
Squares == {Position(r, c) : r \in Rows, c \in Cols}

Abs(x) == IF x < 0 THEN -x ELSE x
Opponent(c) == IF c = "w" THEN "b" ELSE "w"

(***************************************************************************)
(* Board Model                                                             *)
(***************************************************************************)
\* Mutant: king and queen stand on each other's column.
backRow_KingQueenSwapped == <<"r", "n", "b", "k", "q", "b", "n", "r">>

backRow == <<"r", "n", "b", "q", "k", "b", "n", "r">>

createInitialBoard ==
    [r \in Rows |-> [c \in Cols |->
        IF r = 0 THEN Piece(backRow[c + 1], "b", FALSE)
        ELSE IF r = 1 THEN Piece("p", "b", FALSE)
        ELSE IF r = 6 THEN Piece("p", "w", FALSE)
        ELSE IF r = 7 THEN Piece(backRow[c + 1], "w", FALSE)
        ELSE null]]

\* new ChessGame(): the fields after construction (history is never written again).
constructor == [board |-> createInitialBoard, turn |-> "w", deadPieces |-> <<>>, winner |-> "null"]

isValidPos(pos) == pos.row >= 0 /\ pos.row < BoardSize /\ pos.col >= 0 /\ pos.col < BoardSize

PieceAt(b, pos) == IF ~isValidPos(pos) THEN null ELSE b[pos.row][pos.col]
getPiece(pos) == PieceAt(board, pos)

\* Writing square (r, c) of a board; cloneBoard copies, so a write to a clone
\* is a new board value.
SetSquare(b, r, c, p) == [b EXCEPT ![r] = [b[r] EXCEPT ![c] = p]]

\* A new outer array of new rows of copied pieces: square for square the
\* board it was made from.
cloneBoard(b) ==
    CHOOSE newBoard \in {[r \in Rows |-> [c \in Cols |-> b[r][c]]]} : newBoard = b

(***************************************************************************)
(* Pseudo-Legal Generator                                                  *)
(***************************************************************************)
\* addIfValid: the squares it pushes (none or one) and the boolean it returns.
addIfValid(b, color, r, c, captureOnly, moveOnly) ==
    IF ~isValidPos(Position(r, c)) THEN [moves |-> {}, cont |-> FALSE]
    ELSE LET target == b[r][c] IN
         IF target # null /\ target.color = color THEN [moves |-> {}, cont |-> FALSE]
         ELSE IF moveOnly /\ target # null THEN [moves |-> {}, cont |-> FALSE]
         ELSE IF captureOnly /\ target = null THEN [moves |-> {}, cont |-> FALSE]
         ELSE [moves |-> {Position(r, c)}, cont |-> (target = null)]

\* Mutant: one of the eight knight offsets is missing.
knightOffsets_OneMissing == {<<-2, -1>>, <<-2, 1>>, <<-1, -2>>, <<-1, 2>>, <<1, -2>>, <<1, 2>>, <<2, -1>>}

knightOffsets == {<<-2, -1>>, <<-2, 1>>, <<-1, -2>>, <<-1, 2>>, <<1, -2>>, <<1, 2>>, <<2, -1>>, <<2, 1>>}
kingOffsets == {<<-1, -1>>, <<-1, 0>>, <<-1, 1>>, <<0, -1>>, <<0, 1>>, <<1, -1>>, <<1, 0>>, <<1, 1>>}
rookDirections == {<<-1, 0>>, <<1, 0>>, <<0, -1>>, <<0, 1>>}
bishopDirections == {<<-1, -1>>, <<-1, 1>>, <<1, -1>>, <<1, 1>>}

\* Mutant: a pawn never steps two squares.
pawnMoves_NoDoubleStep(b, piece, pos) ==
    LET direction == IF piece.color = "w" THEN -1 ELSE 1
        fwd1 == addIfValid(b, piece.color, pos.row + direction, pos.col, FALSE, TRUE)
    IN  fwd1.moves
        \cup addIfValid(b, piece.color, pos.row + direction, pos.col - 1, TRUE, FALSE).moves
        \cup addIfValid(b, piece.color, pos.row + direction, pos.col + 1, TRUE, FALSE).moves

\* Mutant: the two-square step is tested against row 6 for both colours.
pawnMoves_WhiteStartRowOnly(b, piece, pos) ==
    LET direction == IF piece.color = "w" THEN -1 ELSE 1
        fwd1 == addIfValid(b, piece.color, pos.row + direction, pos.col, FALSE, TRUE)
        fwd2 == IF fwd1.cont /\ ~piece.hasMoved /\ pos.row = 6
                THEN addIfValid(b, piece.color, pos.row + direction * 2, pos.col, FALSE, TRUE).moves
                ELSE {}
    IN  fwd1.moves \cup fwd2
        \cup addIfValid(b, piece.color, pos.row + direction, pos.col - 1, TRUE, FALSE).moves
        \cup addIfValid(b, piece.color, pos.row + direction, pos.col + 1, TRUE, FALSE).moves

\* Mutant: the two-square step does not need the first square to be empty.
pawnMoves_DoubleStepOverPiece(b, piece, pos) ==
    LET direction == IF piece.color = "w" THEN -1 ELSE 1
        fwd1 == addIfValid(b, piece.color, pos.row + direction, pos.col, FALSE, TRUE)
        fwd2 == IF ~piece.hasMoved
                   /\ ((piece.color = "w" /\ pos.row = 6) \/ (piece.color = "b" /\ pos.row = 1))
                THEN addIfValid(b, piece.color, pos.row + direction * 2, pos.col, FALSE, TRUE).moves
                ELSE {}
    IN  fwd1.moves \cup fwd2
        \cup addIfValid(b, piece.color, pos.row + direction, pos.col - 1, TRUE, FALSE).moves
        \cup addIfValid(b, piece.color, pos.row + direction, pos.col + 1, TRUE, FALSE).moves

\* Mutant: the diagonal squares are not capture-only.
pawnMoves_DiagonalOntoEmpty(b, piece, pos) ==
    LET direction == IF piece.color = "w" THEN -1 ELSE 1
        fwd1 == addIfValid(b, piece.color, pos.row + direction, pos.col, FALSE, TRUE)
        fwd2 == IF fwd1.cont /\ ~piece.hasMoved
                   /\ ((piece.color = "w" /\ pos.row = 6) \/ (piece.color = "b" /\ pos.row = 1))
                THEN addIfValid(b, piece.color, pos.row + direction * 2, pos.col, FALSE, TRUE).moves
                ELSE {}
    IN  fwd1.moves \cup fwd2
        \cup addIfValid(b, piece.color, pos.row + direction, pos.col - 1, FALSE, FALSE).moves
        \cup addIfValid(b, piece.color, pos.row + direction, pos.col + 1, FALSE, FALSE).moves

pawnMoves(b, piece, pos) ==
    LET direction == IF piece.color = "w" THEN -1 ELSE 1
        fwd1 == addIfValid(b, piece.color, pos.row + direction, pos.col, FALSE, TRUE)
        fwd2 == IF fwd1.cont /\ ~piece.hasMoved
                   /\ ((piece.color = "w" /\ pos.row = 6) \/ (piece.color = "b" /\ pos.row = 1))
                THEN addIfValid(b, piece.color, pos.row + direction * 2, pos.col, FALSE, TRUE).moves
                ELSE {}
    IN  fwd1.moves \cup fwd2
        \cup addIfValid(b, piece.color, pos.row + direction, pos.col - 1, TRUE, FALSE).moves
        \cup addIfValid(b, piece.color, pos.row + direction, pos.col + 1, TRUE, FALSE).moves

offsetMoves(b, piece, pos, offsets) ==
    UNION {addIfValid(b, piece.color, pos.row + o[1], pos.col + o[2], FALSE, FALSE).moves : o \in offsets}

\* Mutant: kingside, only col 5 is tested for being empty.
castlingMoves_KingsideColFiveOnly(b, piece, pos) ==
    IF piece.hasMoved THEN {}
    ELSE (IF b[pos.row][7].type = "r" /\ ~b[pos.row][7].hasMoved
             /\ b[pos.row][5] = null
          THEN {Position(pos.row, 6)} ELSE {})
         \cup
         (IF b[pos.row][0].type = "r" /\ ~b[pos.row][0].hasMoved
             /\ b[pos.row][1] = null /\ b[pos.row][2] = null /\ b[pos.row][3] = null
          THEN {Position(pos.row, 2)} ELSE {})

\* Mutant: the king's own hasMoved flag is not tested.
castlingMoves_KingFlagIgnored(b, piece, pos) ==
    (IF b[pos.row][7].type = "r" /\ ~b[pos.row][7].hasMoved
        /\ b[pos.row][5] = null /\ b[pos.row][6] = null
     THEN {Position(pos.row, 6)} ELSE {})
    \cup
    (IF b[pos.row][0].type = "r" /\ ~b[pos.row][0].hasMoved
        /\ b[pos.row][1] = null /\ b[pos.row][2] = null /\ b[pos.row][3] = null
     THEN {Position(pos.row, 2)} ELSE {})

castlingMoves(b, piece, pos) ==
    IF piece.hasMoved THEN {}
    ELSE (IF b[pos.row][7].type = "r" /\ ~b[pos.row][7].hasMoved
             /\ b[pos.row][5] = null /\ b[pos.row][6] = null
          THEN {Position(pos.row, 6)} ELSE {})
         \cup
         (IF b[pos.row][0].type = "r" /\ ~b[pos.row][0].hasMoved
             /\ b[pos.row][1] = null /\ b[pos.row][2] = null /\ b[pos.row][3] = null
          THEN {Position(pos.row, 2)} ELSE {})

\* The while loop of one direction vector, from square (r, c) on.
RECURSIVE slide(_, _, _, _, _, _)
slide(b, color, r, c, dr, dc) ==
    IF ~isValidPos(Position(r, c)) THEN {}
    ELSE LET target == b[r][c] IN
         IF target # null
         THEN (IF target.color # color THEN {Position(r, c)} ELSE {})
         ELSE {Position(r, c)} \cup slide(b, color, r + dr, c + dc, dr, dc)

\* Mutant: the queen slides along the rook's directions only.
slidingMoves_QueenAsRook(b, piece, pos) ==
    LET directions == (IF piece.type \in {"r", "q"} THEN rookDirections ELSE {})
                      \cup (IF piece.type \in {"b"} THEN bishopDirections ELSE {})
    IN  UNION {slide(b, piece.color, pos.row + d[1], pos.col + d[2], d[1], d[2]) : d \in directions}

slidingMoves(b, piece, pos) ==
    LET directions == (IF piece.type \in {"r", "q"} THEN rookDirections ELSE {})
                      \cup (IF piece.type \in {"b", "q"} THEN bishopDirections ELSE {})
    IN  UNION {slide(b, piece.color, pos.row + d[1], pos.col + d[2], d[1], d[2]) : d \in directions}

getPseudoLegalMoves(pos, b) ==
    LET piece == b[pos.row][pos.col] IN
    IF piece = null THEN {}
    ELSE IF piece.type = "p" THEN pawnMoves(b, piece, pos)
    ELSE IF piece.type = "n" THEN offsetMoves(b, piece, pos, knightOffsets)
    ELSE IF piece.type = "k" THEN offsetMoves(b, piece, pos, kingOffsets) \cup castlingMoves(b, piece, pos)
    ELSE slidingMoves(b, piece, pos)

(***************************************************************************)
(* Check Detector                                                          *)
(***************************************************************************)
\* The first loop of isCheck: its break leaves only the inner loop, so the
\* king found is the first one of the last row that holds one.
kingSquares(color, b) ==
    {p \in Squares : b[p.row][p.col].type = "k" /\ b[p.row][p.col].color = color}

findKing(color, b) ==
    LET ks == kingSquares(color, b)
        r == CHOOSE x \in {k.row : k \in ks} : \A k \in ks : k.row <= x
        c == CHOOSE y \in {k.col : k \in {k2 \in ks : k2.row = r}} :
                 \A k \in ks : k.row = r => y <= k.col
    IN  Position(r, c)

\* Mutant: a board without the king counts as not in check.
isCheck_NoKingIsSafe(color, b) ==
    IF kingSquares(color, b) = {} THEN FALSE
    ELSE LET kingPos == findKing(color, b) IN
         \E r \in Rows, c \in Cols :
             /\ b[r][c] # null
             /\ b[r][c].color # color
             /\ kingPos \in getPseudoLegalMoves(Position(r, c), b)

isCheck(color, b) ==
    IF kingSquares(color, b) = {} THEN TRUE
    ELSE LET kingPos == findKing(color, b) IN
         \E r \in Rows, c \in Cols :
             /\ b[r][c] # null
             /\ b[r][c].color # color
             /\ kingPos \in getPseudoLegalMoves(Position(r, c), b)

(***************************************************************************)
(* Legal-Move Filter                                                       *)
(***************************************************************************)
\* Mutant: the check is tested on the live board, the move never simulated.
keepsKingSafe_NotSimulated(b, piece, pos, m) ==
    LET direction == IF m.col > pos.col THEN 1 ELSE -1
        midBoard == SetSquare(SetSquare(cloneBoard(b), pos.row, pos.col + direction, b[pos.row][pos.col]),
                              pos.row, pos.col, null)
    IN  IF piece.type = "k" /\ Abs(m.col - pos.col) > 1
           /\ (isCheck(piece.color, b) \/ isCheck(piece.color, midBoard))
        THEN FALSE
        ELSE ~isCheck(piece.color, b)

\* Mutant: the square the king passes over is not tested.
keepsKingSafe_NoThrough(b, piece, pos, m) ==
    LET newBoard == SetSquare(SetSquare(cloneBoard(b), m.row, m.col, b[pos.row][pos.col]),
                              pos.row, pos.col, null)
    IN  IF piece.type = "k" /\ Abs(m.col - pos.col) > 1 /\ isCheck(piece.color, b)
        THEN FALSE
        ELSE ~isCheck(piece.color, newBoard)

\* Mutant: the castling branch returns before the destination is tested.
keepsKingSafe_NoInto(b, piece, pos, m) ==
    LET newBoard == SetSquare(SetSquare(cloneBoard(b), m.row, m.col, b[pos.row][pos.col]),
                              pos.row, pos.col, null)
        direction == IF m.col > pos.col THEN 1 ELSE -1
        midBoard == SetSquare(SetSquare(cloneBoard(b), pos.row, pos.col + direction, b[pos.row][pos.col]),
                              pos.row, pos.col, null)
    IN  IF piece.type = "k" /\ Abs(m.col - pos.col) > 1
        THEN ~(isCheck(piece.color, b) \/ isCheck(piece.color, midBoard))
        ELSE ~isCheck(piece.color, newBoard)

\* Mutant: a king's one-square moves are not simulated.
keepsKingSafe_KingUnfiltered(b, piece, pos, m) ==
    LET newBoard == SetSquare(SetSquare(cloneBoard(b), m.row, m.col, b[pos.row][pos.col]),
                              pos.row, pos.col, null)
        direction == IF m.col > pos.col THEN 1 ELSE -1
        midBoard == SetSquare(SetSquare(cloneBoard(b), pos.row, pos.col + direction, b[pos.row][pos.col]),
                              pos.row, pos.col, null)
    IN  IF piece.type = "k" /\ Abs(m.col - pos.col) <= 1 THEN TRUE
        ELSE IF piece.type = "k" /\ (isCheck(piece.color, b) \/ isCheck(piece.color, midBoard))
        THEN FALSE
        ELSE ~isCheck(piece.color, newBoard)

\* Mutant: only the king's moves are simulated, the other pieces move freely.
keepsKingSafe_OnlyKingFiltered(b, piece, pos, m) ==
    LET newBoard == SetSquare(SetSquare(cloneBoard(b), m.row, m.col, b[pos.row][pos.col]),
                              pos.row, pos.col, null)
        direction == IF m.col > pos.col THEN 1 ELSE -1
        midBoard == SetSquare(SetSquare(cloneBoard(b), pos.row, pos.col + direction, b[pos.row][pos.col]),
                              pos.row, pos.col, null)
    IN  IF piece.type # "k" THEN TRUE
        ELSE IF Abs(m.col - pos.col) > 1
                /\ (isCheck(piece.color, b) \/ isCheck(piece.color, midBoard))
        THEN FALSE
        ELSE ~isCheck(piece.color, newBoard)

\* The filter callback of getLegalMoves for one pseudo-legal candidate.
keepsKingSafe(b, piece, pos, m) ==
    LET newBoard == SetSquare(SetSquare(cloneBoard(b), m.row, m.col, b[pos.row][pos.col]),
                              pos.row, pos.col, null)
        direction == IF m.col > pos.col THEN 1 ELSE -1
        midBoard == SetSquare(SetSquare(cloneBoard(b), pos.row, pos.col + direction, b[pos.row][pos.col]),
                              pos.row, pos.col, null)
    IN  IF piece.type = "k" /\ Abs(m.col - pos.col) > 1
           /\ (isCheck(piece.color, b) \/ isCheck(piece.color, midBoard))
        THEN FALSE
        ELSE ~isCheck(piece.color, newBoard)

\* Mutant: the colour of the piece is not compared with the side to move.
LegalMoves_AnyColour(b, t, pos) ==
    LET piece == PieceAt(b, pos) IN
    IF piece = null THEN {}
    ELSE {m \in getPseudoLegalMoves(pos, b) : keepsKingSafe(b, piece, pos, m)}

LegalMoves(b, t, pos) ==
    LET piece == PieceAt(b, pos) IN
    IF piece = null \/ piece.color # t THEN {}
    ELSE {m \in getPseudoLegalMoves(pos, b) : keepsKingSafe(b, piece, pos, m)}

getLegalMoves(pos) == LegalMoves(board, turn, pos)

\* The same callback with the boards as the engine holds them: arrays of row
\* arrays.  A heap maps the address of a row array to its contents; a board is
\* the eight addresses of its rows.  The live board has its rows at 0 .. 7.
liveBoard == [r \in Rows |-> r]
heapOf(b) == [a \in Rows |-> b[a]]
boardIn(heap, rows) == [r \in Rows |-> heap[rows[r]]]
writeSquare(heap, rows, r, c, p) == [heap EXCEPT ![rows[r]] = [@ EXCEPT ![c] = p]]

\* Mutant: the clone is the outer array only and shares the row arrays.
cloneBoardAt_Shallow(heap, rows, base) == [heap |-> heap, rows |-> rows]

\* cloneBoard: map allocates a new outer array and eight new row arrays, here
\* at the addresses base .. base + 7, and copies every piece.
cloneBoardAt(heap, rows, base) ==
    [heap |-> [a \in DOMAIN heap \cup {base + r : r \in Rows} |->
                  IF a \in DOMAIN heap THEN heap[a] ELSE heap[rows[a - base]]],
     rows |-> [r \in Rows |-> base + r]]

\* The heap after the callback has run for candidate m, the rows of newBoard
\* and the value returned.
filterCallback(b, pos, m) ==
    LET color == b[pos.row][pos.col].color
        new == cloneBoardAt(heapOf(b), liveBoard, BoardSize)
        movedPiece == new.heap[new.rows[pos.row]][pos.col]
        castling == movedPiece.type = "k" /\ Abs(m.col - pos.col) > 1
        direction == IF m.col > pos.col THEN 1 ELSE -1
        inCheck == isCheck(color, boardIn(new.heap, liveBoard))
        mid == IF castling /\ ~inCheck
               THEN cloneBoardAt(new.heap, liveBoard, 2 * BoardSize)
               ELSE [heap |-> new.heap, rows |-> liveBoard]
        midHeap == IF castling /\ ~inCheck
                   THEN writeSquare(writeSquare(mid.heap, mid.rows, pos.row, pos.col + direction,
                                                mid.heap[mid.rows[pos.row]][pos.col]),
                                    mid.rows, pos.row, pos.col, null)
                   ELSE new.heap
        returned == castling /\ (inCheck \/ isCheck(color, boardIn(midHeap, mid.rows)))
        heap == IF returned THEN midHeap
                ELSE writeSquare(writeSquare(midHeap, new.rows, m.row, m.col, movedPiece),
                                 new.rows, pos.row, pos.col, null)
    IN  [heap |-> heap, newBoard |-> new.rows,
         ret |-> ~returned /\ ~isCheck(color, boardIn(heap, new.rows))]

(***************************************************************************)
(* Move Applier / Terminal-State Detector                                  *)
(***************************************************************************)
hasNoMoves(b, t) ==
    \A r \in Rows, c \in Cols :
        (b[r][c] # null /\ b[r][c].color = t) => LegalMoves(b, t, Position(r, c)) = {}

\* Mutant: a check alone counts as checkmate.
isCheckMate_CheckOnly(b, t) == isCheck(t, b)

isCheckMate(b, t) == IF ~isCheck(t, b) THEN FALSE ELSE hasNoMoves(b, t)

\* Mutant: the test of isCheckMate copied, so no position is a stalemate.
isStaleMate_AsCheckMate(b, t) == IF ~isCheck(t, b) THEN FALSE ELSE hasNoMoves(b, t) /\ ~isCheck(t, b)

isStaleMate(b, t) == IF isCheck(t, b) THEN FALSE ELSE hasNoMoves(b, t)

\* Mutant: the piece is written to its destination and stays on its square.
movePiece_FromKept(b, from, to) ==
    SetSquare(b, to.row, to.col, [b[from.row][from.col] EXCEPT !.hasMoved = TRUE])

\* Mutant: the piece is moved as it is, its hasMoved flag not set.
movePiece_HasMovedKept(b, from, to) ==
    SetSquare(SetSquare(b, to.row, to.col, b[from.row][from.col]), from.row, from.col, null)

\* The board after the writes of an accepted move: the piece, the rook hop of
\* castling, the promotion.
movePiece(b, from, to) ==
    SetSquare(SetSquare(b, to.row, to.col, [b[from.row][from.col] EXCEPT !.hasMoved = TRUE]),
              from.row, from.col, null)

\* Mutant: the rook hops without its hasMoved flag being set.
castleRook_FlagNotSet(b, piece, from, to) ==
    IF piece.type = "k" /\ Abs(to.col - from.col) > 1
    THEN LET isKingside == to.col > from.col
             rookCol == IF isKingside THEN 7 ELSE 0
             rookTargetCol == IF isKingside THEN 5 ELSE 3
             rook == b[to.row][rookCol]
         IN  IF rook # null
             THEN SetSquare(SetSquare(b, to.row, rookTargetCol, rook), to.row, rookCol, null)
             ELSE b
    ELSE b

castleRook(b, piece, from, to) ==
    IF piece.type = "k" /\ Abs(to.col - from.col) > 1
    THEN LET isKingside == to.col > from.col
             rookCol == IF isKingside THEN 7 ELSE 0
             rookTargetCol == IF isKingside THEN 5 ELSE 3
             rook == b[to.row][rookCol]
         IN  IF rook # null
             THEN SetSquare(SetSquare(b, to.row, rookTargetCol, [rook EXCEPT !.hasMoved = TRUE]),
                            to.row, rookCol, null)
             ELSE b
    ELSE b

\* Mutant: only row 0 promotes, so a black pawn stays a pawn on row 7.
promote_RowZeroOnly(b, piece, to) ==
    IF piece.type = "p" /\ to.row = 0
    THEN SetSquare(b, to.row, to.col, [b[to.row][to.col] EXCEPT !.type = "q"])
    ELSE b

promote(b, piece, to) ==
    IF piece.type = "p" /\ (to.row = 0 \/ to.row = 7)
    THEN SetSquare(b, to.row, to.col, [b[to.row][to.col] EXCEPT !.type = "q"])
    ELSE b

boardAfter(b, from, to) ==
    LET piece == b[from.row][from.col]
    IN  promote(castleRook(movePiece(b, from, to), piece, from, to), piece, to)

\* Mutant: the side that is checkmated is named the winner.
gameOver_LoserWins(b, t, w) ==
    IF isCheckMate(b, t) THEN t
    ELSE IF isStaleMate(b, t) THEN "draw"
    ELSE w

\* Mutant: a stalemate is not detected.
gameOver_NoDraw(b, t, w) ==
    IF isCheckMate(b, t) THEN Opponent(t)
    ELSE w

gameOver(b, t, w) ==
    IF isCheckMate(b, t) THEN Opponent(t)
    ELSE IF isStaleMate(b, t) THEN "draw"
    ELSE w

\* Mutant: the captured piece is recorded before the move is validated.
moveWith_CaptureFirst(g, from, to, legalMoves) ==
    LET target == PieceAt(g.board, to)
        dead == IF target # null THEN Append(g.deadPieces, target) ELSE g.deadPieces
    IN  IF to \notin legalMoves THEN [game |-> [g EXCEPT !.deadPieces = dead], ret |-> FALSE]
        ELSE LET b == boardAfter(g.board, from, to)
                 t == Opponent(g.turn)
             IN  [game |-> [board |-> b, turn |-> t, deadPieces |-> dead,
                            winner |-> gameOver(b, t, g.winner)],
                  ret |-> TRUE]

\* Mutant: the turn is switched before the move is validated.
moveWith_FlipFirst(g, from, to, legalMoves) ==
    IF to \notin legalMoves THEN [game |-> [g EXCEPT !.turn = Opponent(g.turn)], ret |-> FALSE]
    ELSE LET target == g.board[to.row][to.col]
             dead == IF target # null THEN Append(g.deadPieces, target) ELSE g.deadPieces
             b == boardAfter(g.board, from, to)
             t == Opponent(g.turn)
         IN  [game |-> [board |-> b, turn |-> t, deadPieces |-> dead,
                        winner |-> gameOver(b, t, g.winner)],
              ret |-> TRUE]

\* Mutant: the captured piece is put at the head of deadPieces.
moveWith_CapturePrepended(g, from, to, legalMoves) ==
    IF to \notin legalMoves THEN [game |-> g, ret |-> FALSE]
    ELSE LET target == g.board[to.row][to.col]
             dead == IF target # null THEN <<target>> \o g.deadPieces ELSE g.deadPieces
             b == boardAfter(g.board, from, to)
             t == Opponent(g.turn)
         IN  [game |-> [board |-> b, turn |-> t, deadPieces |-> dead,
                        winner |-> gameOver(b, t, g.winner)],
              ret |-> TRUE]

\* Mutant: on a capture the capturing piece is recorded, not the captured one.
moveWith_MoverRecorded(g, from, to, legalMoves) ==
    IF to \notin legalMoves THEN [game |-> g, ret |-> FALSE]
    ELSE LET piece == g.board[from.row][from.col]
             target == g.board[to.row][to.col]
             dead == IF target # null THEN Append(g.deadPieces, piece) ELSE g.deadPieces
             b == boardAfter(g.board, from, to)
             t == Opponent(g.turn)
         IN  [game |-> [board |-> b, turn |-> t, deadPieces |-> dead,
                        winner |-> gameOver(b, t, g.winner)],
              ret |-> TRUE]

\* move(from, to) on game g once legalMoves = getLegalMoves(from) is known: the
\* game afterwards and the value returned.
moveWith(g, from, to, legalMoves) ==
    IF to \notin legalMoves THEN [game |-> g, ret |-> FALSE]
    ELSE LET target == g.board[to.row][to.col]
             dead == IF target # null THEN Append(g.deadPieces, target) ELSE g.deadPieces
             b == boardAfter(g.board, from, to)
             t == Opponent(g.turn)
         IN  [game |-> [board |-> b, turn |-> t, deadPieces |-> dead,
                        winner |-> gameOver(b, t, g.winner)],
              ret |-> TRUE]

move(g, from, to) == moveWith(g, from, to, LegalMoves(g.board, g.turn, from))

(***************************************************************************)
(* Position Serializer                                                     *)
(***************************************************************************)
toUpperCase(t) ==
    CASE t = "p" -> "P" [] t = "r" -> "R" [] t = "n" -> "N"
      [] t = "b" -> "B" [] t = "q" -> "Q" [] t = "k" -> "K"

\* Mutant: white pieces are written in lower case too.
fenChar_AlwaysLower(p) == p.type

fenChar(p) == IF p.color = "w" THEN toUpperCase(p.type) ELSE p.type

\* The inner loop of getFen from column c on, with the flush of the count
\* after it: the characters it adds to fen.
RECURSIVE fenCols(_, _, _, _)
fenCols(b, r, c, empty) ==
    IF c < BoardSize
    THEN IF b[r][c] = null THEN fenCols(b, r, c + 1, empty + 1)
         ELSE (IF empty > 0 THEN ToString(empty) ELSE "") \o fenChar(b[r][c])
              \o fenCols(b, r, c + 1, 0)
    ELSE IF empty > 0 THEN ToString(empty) ELSE ""

\* Mutant: the separator is written after the last row too.
RECURSIVE fenRows_TrailingSlash(_, _)
fenRows_TrailingSlash(b, r) ==
    IF r < BoardSize
    THEN fenCols(b, r, 0, 0) \o "/" \o fenRows_TrailingSlash(b, r + 1)
    ELSE ""

\* The outer loop of getFen from row r on: the characters it adds to fen.
RECURSIVE fenRows(_, _)
fenRows(b, r) ==
    IF r < BoardSize
    THEN fenCols(b, r, 0, 0) \o (IF r < BoardSize - 1 THEN "/" ELSE "") \o fenRows(b, r + 1)
    ELSE ""

getFen(g) == fenRows(g.board, 0) \o " " \o g.turn \o " - - 0 1"

(***************************************************************************)
(* The session layer                                                       *)
(***************************************************************************)
\* The two players of a connected session, named by their playerColor: the
\* host plays white, the guest black.
Players == {"w", "b"}

\* A session starts from a new game or from the position after a recorded
\* opening, played move by move through the handlers of both players; line is
\* the opening played.  After it at most MaxMoves moves are made and
\* MaxRestarts new games started.  From a new game the players click the
\* squares of the columns ClickCols, after the queen raid those of RaidClicks,
\* before the mate those of MateClicks.  In the sessions before the mate the
\* server may end the game, at most MaxGameOvers times.
MaxMoves == 2
MaxRestarts == 1
MaxGameOvers == 1
ClickCols == {3, 4}
RaidClicks == {Position(5, 7), Position(6, 7)}
MateClicks == {Position(0, 3), Position(1, 4), Position(4, 7)}

\* 1.a3 e5 2.a4 Qh4 3.a5 Qxh2 4.a6: the black queen stands on white's h2.
QueenRaid ==
    <<<<Position(6, 0), Position(5, 0)>>, <<Position(1, 4), Position(3, 4)>>,
      <<Position(5, 0), Position(4, 0)>>, <<Position(0, 3), Position(4, 7)>>,
      <<Position(4, 0), Position(3, 0)>>, <<Position(4, 7), Position(6, 7)>>,
      <<Position(3, 0), Position(2, 0)>>>>

\* 1.f3 e5 2.g4: black mates with the queen on h4.
MateInOne ==
    <<<<Position(6, 5), Position(5, 5)>>, <<Position(1, 4), Position(3, 4)>>,
      <<Position(6, 6), Position(4, 6)>>>>
Openings == <<<<>>, QueenRaid, MateInOne>>
Clicks ==
    IF line = 1 THEN {Position(r, c) : r \in Rows, c \in ClickCols}
    ELSE IF line = 2 THEN RaidClicks
    ELSE MateClicks

\* No square selected, no last move.
nullPosition == [row |-> -1, col |-> -1]
nullMove == [from |-> nullPosition, to |-> nullPosition]

\* The state of App that the game handlers read and write.  The states turn
\* and board are copies of game.turn and game.board, set by every handler that
\* changes the game.
useState ==
    [game |-> constructor, selected |-> nullPosition, validMoves |-> {}, winner |-> "null",
     lastMove |-> nullMove, moveHistory |-> <<>>]

\* The move log; a notation is kept as the move it writes down.
addMoveToHistory(moveHistory, notation, color) ==
    IF color = "w"
    THEN Append(moveHistory, [moveNum |-> Len(moveHistory) + 1, white |-> notation, black |-> nullMove])
    ELSE IF Len(moveHistory) > 0
         THEN [moveHistory EXCEPT ![Len(moveHistory)].black = notation]
         ELSE moveHistory

\* Squares on the socket: the file letter and the rank digit.
fileLetters == <<"a", "b", "c", "d", "e", "f", "g", "h">>
fromCharCode(n) == fileLetters[n - 96]
charCodeAt(ch) == CHOOSE n \in 97 .. 104 : fileLetters[n - 96] = ch
parseInt(digit) == CHOOSE n \in 0 .. 9 : ToString(n) = digit

\* Mutant: the rank digit counts from 0.
posToAlgebraic_RankFromZero(pos) == <<fromCharCode(97 + pos.col), ToString(7 - pos.row)>>

posToAlgebraic(pos) == <<fromCharCode(97 + pos.col), ToString(8 - pos.row)>>
algebraicToPos(square) == Position(8 - parseInt(square[2]), charCodeAt(square[1]) - 97)

\* The message of a move on the data channel and on the socket.
sendMove(from, to) == [type |-> "move", from |-> from, to |-> to]
sendOnlineMove(from, to, fen) ==
    [type |-> "move", data |-> [from |-> posToAlgebraic(from), to |-> posToAlgebraic(to), fen |-> fen]]
sendRestart == [type |-> "restart"]

\* The message of the server that ends a game: the winner is "white", "black"
\* or null for a draw.
GameOverWinners == {"white", "black", "null"}
gameOverMessage(w) == [type |-> "game_over", data |-> [winner |-> w]]

\* resetGame: the state afterwards.
resetGame(a) == useState

\* Mutant: the restart signal is sent whatever sendSignal is.
resetGameSends_SignalIgnored(sendSignal, connected) ==
    IF connected THEN <<sendRestart>> ELSE <<>>

\* resetGame(sendSignal): the messages it sends.
resetGameSends(sendSignal, connected) ==
    IF sendSignal /\ connected THEN <<sendRestart>> ELSE <<>>

\* The messages the handler of a received message sends: a received restart
\* calls resetGame(false), the handler of a move sends nothing.
onmessageSends(msg) ==
    IF msg.type = "restart" THEN resetGameSends(FALSE, TRUE) ELSE <<>>

\* The handler of a move message once from and to are decoded.
receiveMove(a, from, to) ==
    LET piece == PieceAt(a.game.board, from)
        movingColor == a.game.turn
        prevGame == move(a.game, from, to).game
    IN  [game |-> prevGame,
         selected |-> nullPosition,
         validMoves |-> {},
         winner |-> prevGame.winner,
         lastMove |-> [from |-> from, to |-> to],
         moveHistory |-> IF piece # null
                         THEN addMoveToHistory(a.moveHistory, [from |-> from, to |-> to], movingColor)
                         ELSE a.moveHistory]

\* dc.onmessage of the data channel.
onmessage(a, msg) ==
    IF msg.type = "move" THEN receiveMove(a, msg.from, msg.to)
    ELSE IF msg.type = "restart" THEN resetGame(a)
    ELSE a

\* handleWebSocketMessage of the socket.
handleWebSocketMessage(a, msg) ==
    IF msg.type = "move" THEN receiveMove(a, algebraicToPos(msg.data.from), algebraicToPos(msg.data.to))
    ELSE IF msg.type = "restart" THEN resetGame(a)
    ELSE IF msg.type = "game_over"
    THEN [a EXCEPT !.winner = IF msg.data.winner # "null"
                              THEN (IF msg.data.winner = "white" THEN "w" ELSE "b")
                              ELSE "draw"]
    ELSE a

\* The second half of handleSquareClick: the square is selected or the
\* selection dropped.
selectSquare(a, playerColor, sq) ==
    LET piece == PieceAt(a.game.board, sq) IN
    IF piece # null /\ piece.color = a.game.turn
    THEN IF piece.color # playerColor THEN a
         ELSE [a EXCEPT !.selected = sq, !.validMoves = LegalMoves(a.game.board, a.game.turn, sq)]
    ELSE [a EXCEPT !.selected = nullPosition, !.validMoves = {}]

\* Mutant: the click is not stopped by a displayed winner.
handleSquareClick_NoWinnerGuard(a, playerColor, sq, online) ==
    IF a.game.turn # playerColor THEN [app |-> a, sent |-> <<>>]
    ELSE IF a.selected # nullPosition /\ sq \in a.validMoves
    THEN LET res == move(a.game, a.selected, sq)
             movingColor == a.game.turn
         IN  IF res.ret
             THEN [app |-> [game |-> res.game,
                            selected |-> nullPosition,
                            validMoves |-> {},
                            winner |-> res.game.winner,
                            lastMove |-> [from |-> a.selected, to |-> sq],
                            moveHistory |-> addMoveToHistory(a.moveHistory,
                                                [from |-> a.selected, to |-> sq], movingColor)],
                   sent |-> IF online
                            THEN <<sendOnlineMove(a.selected, sq, getFen(res.game))>>
                            ELSE <<sendMove(a.selected, sq)>>]
             ELSE [app |-> selectSquare(a, playerColor, sq), sent |-> <<>>]
    ELSE [app |-> selectSquare(a, playerColor, sq), sent |-> <<>>]

\* handleSquareClick in a connected session: the state afterwards and the
\* messages sent.
handleSquareClick(a, playerColor, sq, online) ==
    IF a.winner # "null" THEN [app |-> a, sent |-> <<>>]
    ELSE IF a.game.turn # playerColor THEN [app |-> a, sent |-> <<>>]
    ELSE IF a.selected # nullPosition /\ sq \in a.validMoves
    THEN LET res == move(a.game, a.selected, sq)
             movingColor == a.game.turn
         IN  IF res.ret
             THEN [app |-> [game |-> res.game,
                            selected |-> nullPosition,
                            validMoves |-> {},
                            winner |-> res.game.winner,
                            lastMove |-> [from |-> a.selected, to |-> sq],
                            moveHistory |-> addMoveToHistory(a.moveHistory,
                                                [from |-> a.selected, to |-> sq], movingColor)],
                   sent |-> IF online
                            THEN <<sendOnlineMove(a.selected, sq, getFen(res.game))>>
                            ELSE <<sendMove(a.selected, sq)>>]
             ELSE [app |-> selectSquare(a, playerColor, sq), sent |-> <<>>]
    ELSE [app |-> selectSquare(a, playerColor, sq), sent |-> <<>>]

\* The base specification has no session.
NoSession ==
    /\ mode = "p2p"
    /\ app = [p \in Players |-> useState]
    /\ wire = [p \in Players |-> <<>>]
    /\ budget = [moves |-> 0, restarts |-> 0, gameOvers |-> 0]

\* The players' states after one move of an opening: the player to move
\* clicks the piece and then the destination, and the message sent is
\* delivered to the other player.
playMove(apps, mv, online) ==
    LET p == apps.w.game.turn IN
    CHOOSE next \in
        {[w |-> IF p = "w" THEN res.app
                ELSE IF online THEN handleWebSocketMessage(apps.w, res.sent[1])
                ELSE onmessage(apps.w, res.sent[1]),
          b |-> IF p = "b" THEN res.app
                ELSE IF online THEN handleWebSocketMessage(apps.b, res.sent[1])
                ELSE onmessage(apps.b, res.sent[1])] :
            res \in {handleSquareClick(handleSquareClick(apps[p], p, mv[1], online).app,
                                       p, mv[2], online)}} : TRUE

\* The players' states after all the moves of an opening.
RECURSIVE playOpening(_, _, _)
playOpening(apps, moves, online) ==
    IF moves = <<>> THEN apps
    ELSE CHOOSE last \in {playOpening(next, Tail(moves), online) :
                             next \in {playMove(apps, Head(moves), online)}} : TRUE

SessionInit ==
    /\ board = constructor.board
    /\ turn = constructor.turn
    /\ deadPieces = constructor.deadPieces
    /\ winner = constructor.winner
    /\ line \in DOMAIN Openings
    /\ ply = 0
    /\ mode \in {"p2p", "online"}
    /\ app = playOpening([w |-> useState, b |-> useState], Openings[line], mode = "online")
    /\ wire = [p \in Players |-> <<>>]
    /\ budget = [moves |-> 0, restarts |-> 0, gameOvers |-> 0]

\* Player p clicks square sq.
ClickSquare(p, sq) ==
    /\ (app[p].selected # nullPosition /\ sq \in app[p].validMoves) => budget.moves < MaxMoves
    /\ \E res \in {handleSquareClick(app[p], p, sq, mode = "online")} :
       /\ app' = [app EXCEPT ![p] = res.app]
       /\ wire' = [wire EXCEPT ![Opponent(p)] = @ \o res.sent]
       /\ budget' = [budget EXCEPT !.moves = @ + Len(res.sent)]
    /\ UNCHANGED <<mode, engineVars>>

\* Player p presses New Game: resetGame(true).
ClickNewGame(p) ==
    /\ budget.restarts < MaxRestarts
    /\ app' = [app EXCEPT ![p] = resetGame(@)]
    /\ wire' = [wire EXCEPT ![Opponent(p)] = @ \o resetGameSends(TRUE, TRUE)]
    /\ budget' = [budget EXCEPT !.restarts = @ + 1]
    /\ UNCHANGED <<mode, engineVars>>

\* The oldest message in flight towards player p is delivered.
Deliver(p) ==
    /\ wire[p] # <<>>
    /\ app' = [app EXCEPT ![p] = IF mode = "online"
                                 THEN handleWebSocketMessage(@, Head(wire[p]))
                                 ELSE onmessage(@, Head(wire[p]))]
    /\ wire' = [wire EXCEPT ![p] = Tail(@), ![Opponent(p)] = @ \o onmessageSends(Head(wire[p]))]
    /\ UNCHANGED <<mode, budget, engineVars>>

\* The server ends the game, by a resignation or an agreed draw, and tells
\* both players.
ServerGameOver(w) ==
    /\ mode = "online" /\ line = 3
    /\ budget.gameOvers < MaxGameOvers
    /\ wire' = [wire EXCEPT !["w"] = Append(@, gameOverMessage(w)), !["b"] = Append(@, gameOverMessage(w))]
    /\ budget' = [budget EXCEPT !.gameOvers = @ + 1]
    /\ UNCHANGED <<mode, app, engineVars>>

SessionNext ==
    \/ \E p \in Players, sq \in Clicks : ClickSquare(p, sq)
    \/ \E p \in Players : ClickNewGame(p)
    \/ \E p \in Players : Deliver(p)
    \/ \E w \in GameOverWinners : ServerGameOver(w)

SessionSpec == SessionInit /\ [][SessionNext]_vars

(***************************************************************************)
(* The caller                                                              *)
(***************************************************************************)
\* The caller replays a recorded game through move, one call per recorded
\* move, and then makes at most MaxFree further calls that are accepted.
\* Calls that are rejected may come at any time.
MaxFree == 0

\* Arguments of move: every square, and the coordinates just off the board.
Coords == -1 .. BoardSize
Args == {Position(r, c) : r \in Coords, c \in Coords}

\* A recorded move, from (fr, fc) to (tr, tc); row 0 is rank 8, col 0 is file a.
M(fr, fc, tr, tc) == <<Position(fr, fc), Position(tr, tc)>>

\* the new game, no move played
NewGame ==
    <<>>

\* 1.f3 e5 2.g4 Qh4#
FoolsMate ==
    <<M(6, 5, 5, 5), M(1, 4, 3, 4), M(6, 6, 4, 6), M(0, 3, 4, 7)>>

\* 1.e4 e5 2.Bc4 Nc6 3.Qh5 Nf6 4.Qxf7#
ScholarsMate ==
    <<M(6, 4, 4, 4), M(1, 4, 3, 4), M(7, 5, 4, 2), M(0, 1, 2, 2),
       M(7, 3, 3, 7), M(0, 6, 2, 5), M(3, 7, 1, 5)>>

\* 1.e3 a5 2.Qh5 Ra6 3.Qxa5 h5 4.h4 Rah6 5.Qxc7 f6 6.Qxd7+ Kf7 7.Qxb7 Qd3 8.Qxb8 Qh7 9.Qxc8 Kg6 10.Qe6: black is stalemated
LoydStalemate ==
    <<M(6, 4, 5, 4), M(1, 0, 3, 0), M(7, 3, 3, 7), M(0, 0, 2, 0),
       M(3, 7, 3, 0), M(1, 7, 3, 7), M(6, 7, 4, 7), M(2, 0, 2, 7),
       M(3, 0, 1, 2), M(1, 5, 2, 5), M(1, 2, 1, 3), M(0, 4, 1, 5),
       M(1, 3, 1, 1), M(0, 3, 5, 3), M(1, 1, 0, 1), M(5, 3, 1, 7),
       M(0, 1, 0, 2), M(1, 5, 2, 6), M(0, 2, 2, 4)>>

\* 1.d4 d5 2.c4 Bf5 3.Nc3 e6 4.Bf4 Nf6 5.Qb3 Be7 6.O-O-O (b1 is attacked by the bishop on f5) O-O
CastleLong ==
    <<M(6, 3, 4, 3), M(1, 3, 3, 3), M(6, 2, 4, 2), M(0, 2, 3, 5),
       M(7, 1, 5, 2), M(1, 4, 2, 4), M(7, 2, 4, 5), M(0, 6, 2, 5),
       M(7, 3, 5, 1), M(0, 5, 1, 4), M(7, 4, 7, 2), M(0, 4, 0, 6)>>

\* 1.e4 d6 2.Nf3 Nc6 3.Be2 Bg4 4.d3 Qd7 5.O-O O-O-O
CastleShort ==
    <<M(6, 4, 4, 4), M(1, 3, 2, 3), M(7, 6, 5, 5), M(0, 1, 2, 2),
       M(7, 5, 6, 4), M(0, 2, 4, 6), M(6, 3, 5, 3), M(0, 3, 1, 3),
       M(7, 4, 7, 6), M(0, 4, 0, 2)>>

\* 1.g3 b6 2.Bg2 Ba6 3.Nf3 e6 4.e4 Nf6 (f1 is attacked by the bishop on a6) 5.d3 Be7 6.O-O
CastleThrough ==
    <<M(6, 6, 5, 6), M(1, 1, 2, 1), M(7, 5, 6, 6), M(0, 2, 2, 0),
       M(7, 6, 5, 5), M(1, 4, 2, 4), M(6, 4, 4, 4), M(0, 6, 2, 5),
       M(6, 3, 5, 3), M(0, 5, 1, 4), M(7, 4, 7, 6)>>

\* 1.b3 g6 2.Ba3 Bg7 3.e3 Nf6 4.Nf3 e5 5.Be2 (f8 is attacked by the bishop on a3) d6 6.O-O O-O
CastleThroughBlack ==
    <<M(6, 1, 5, 1), M(1, 6, 2, 6), M(7, 2, 5, 0), M(0, 5, 1, 6),
       M(6, 4, 5, 4), M(0, 6, 2, 5), M(7, 6, 5, 5), M(1, 4, 3, 4),
       M(7, 5, 6, 4), M(1, 3, 2, 3), M(7, 4, 7, 6), M(0, 4, 0, 6)>>

\* 1.e4 e5 2.Nh3 Bc5 3.Bc4 Nf6 4.f3 d6 (g1 is attacked by the bishop on c5) 5.d4 Bxd4 6.c3 Bxc3+ 7.Nxc3
CastleInto ==
    <<M(6, 4, 4, 4), M(1, 4, 3, 4), M(7, 6, 5, 7), M(0, 5, 3, 2),
       M(7, 5, 4, 2), M(0, 6, 2, 5), M(6, 5, 5, 5), M(1, 3, 2, 3),
       M(6, 3, 4, 3), M(3, 2, 4, 3), M(6, 2, 5, 2), M(4, 3, 5, 2),
       M(7, 1, 5, 2)>>

\* 1.e4 c6 2.Nf3 d6 3.Bc4 h6 4.d4 Qa5+ 5.c3 (the pawn on c3 is pinned) Nf6 6.O-O
CastleOutOf ==
    <<M(6, 4, 4, 4), M(1, 2, 2, 2), M(7, 6, 5, 5), M(1, 3, 2, 3),
       M(7, 5, 4, 2), M(1, 7, 2, 7), M(6, 3, 4, 3), M(0, 3, 3, 0),
       M(6, 2, 5, 2), M(0, 6, 2, 5), M(7, 4, 7, 6)>>

\* 1.a4 b5 2.axb5 a6 3.bxa6 Bb7 4.axb7 Nc6 5.bxa8=Q Qxa8
PromoteWhite ==
    <<M(6, 0, 4, 0), M(1, 1, 3, 1), M(4, 0, 3, 1), M(1, 0, 2, 0),
       M(3, 1, 2, 0), M(0, 2, 1, 1), M(2, 0, 1, 1), M(0, 1, 2, 2),
       M(1, 1, 0, 0), M(0, 3, 0, 0)>>

\* 1.h3 g5 2.h4 gxh4 3.g3 hxg3 4.Nf3 g2 5.a3 gxf1=Q+ 6.Rxf1
PromoteBlack ==
    <<M(6, 7, 5, 7), M(1, 6, 3, 6), M(5, 7, 4, 7), M(3, 6, 4, 7),
       M(6, 6, 5, 6), M(4, 7, 5, 6), M(7, 6, 5, 5), M(5, 6, 6, 6),
       M(6, 0, 5, 0), M(6, 6, 7, 5), M(7, 7, 7, 5)>>

\* 1.e4 a6 2.e5 d5 (the pawns on e5 and d5 stand side by side) 3.e6 fxe6
EnPassant ==
    <<M(6, 4, 4, 4), M(1, 0, 2, 0), M(4, 4, 3, 4), M(1, 3, 3, 3),
       M(3, 4, 2, 4), M(1, 5, 2, 4)>>

\* 1.e4 e5 2.Nf3 Nf6 3.Bc4 Bc5 4.Ke2 Rg8 5.Ke1 Rh8 6.Bxf7+: the white king
\* and the black rook are back on their squares.
KingAndRookReturn ==
    <<M(6, 4, 4, 4), M(1, 4, 3, 4), M(7, 6, 5, 5), M(0, 6, 2, 5),
       M(7, 5, 4, 2), M(0, 5, 3, 2), M(7, 4, 6, 4), M(0, 7, 0, 6),
       M(6, 4, 7, 4), M(0, 6, 0, 7), M(4, 2, 1, 5)>>

\* 1.b3 g6 2.Bb2 a6 3.Bxh8 Nf6 4.a3 Bh6 5.a4 Bxd2+: the rook on h8 is
\* captured before it or the black king has moved.
RookCaptured ==
    <<M(6, 1, 5, 1), M(1, 6, 2, 6), M(7, 2, 6, 1), M(1, 0, 2, 0),
       M(6, 1, 0, 7), M(0, 6, 2, 5), M(6, 0, 5, 0), M(0, 5, 2, 7),
       M(5, 0, 4, 0), M(2, 7, 6, 3)>>

Lines == <<NewGame, FoolsMate, ScholarsMate, LoydStalemate, CastleLong, CastleShort, CastleThrough, CastleThroughBlack, CastleInto, CastleOutOf, PromoteWhite, PromoteBlack, EnPassant, KingAndRookReturn, RookCaptured>>

Scripted == ply < Len(Lines[line])

\* Destinations the caller tries besides the legal ones: off the board in
\* either coordinate, and the square itself.
Probes(from) == {Position(-1, from.col), Position(from.row, BoardSize), from}

Init ==
    /\ board = constructor.board
    /\ turn = constructor.turn
    /\ deadPieces = constructor.deadPieces
    /\ winner = constructor.winner
    /\ line \in DOMAIN Lines
    /\ ply = 0
    /\ NoSession

\* One call move(from, to), accepted or rejected.
CallMove(from, to, legalMoves) ==
    /\ (to \in legalMoves) =>
           IF Scripted THEN <<from, to>> = Lines[line][ply + 1]
           ELSE ply < Len(Lines[line]) + MaxFree
    /\ \E res \in {moveWith(game, from, to, legalMoves)} :
       /\ board' = res.game.board
       /\ turn' = res.game.turn
       /\ deadPieces' = res.game.deadPieces
       /\ winner' = res.game.winner
       /\ ply' = IF res.ret THEN ply + 1 ELSE ply
    /\ UNCHANGED line
    /\ UNCHANGED sessionVars

Next ==
    \E from \in Args :
        \E legalMoves \in {getLegalMoves(from)} :
            \E to \in legalMoves \cup Probes(from) : CallMove(from, to, legalMoves)

Spec == Init /\ [][Next]_vars

(***************************************************************************)
(* Vocabulary of the properties                                            *)
(***************************************************************************)
\* Chess attack geometry, stated without the move generator: a piece of colour
\* by attacks square sq on board b.
PawnAttacks(b, by, sq) ==
    LET r == sq.row - (IF by = "w" THEN -1 ELSE 1) IN
    /\ r \in Rows
    /\ \E c \in {sq.col - 1, sq.col + 1} \cap Cols : b[r][c].type = "p" /\ b[r][c].color = by

StepAttacks(b, by, sq, offsets, type) ==
    \E o \in offsets :
        LET r == sq.row + o[1]
            c == sq.col + o[2]
        IN  r \in Rows /\ c \in Cols /\ b[r][c].type = type /\ b[r][c].color = by

\* The first occupied square from sq in direction d, or null at the board edge.
RECURSIVE FirstPiece(_, _, _, _, _)
FirstPiece(b, r, c, dr, dc) ==
    IF ~(r \in Rows /\ c \in Cols) THEN null
    ELSE IF b[r][c] # null THEN b[r][c]
    ELSE FirstPiece(b, r + dr, c + dc, dr, dc)

LineAttacks(b, by, sq, directions, types) ==
    \E d \in directions :
        LET p == FirstPiece(b, sq.row + d[1], sq.col + d[2], d[1], d[2])
        IN  p.color = by /\ p.type \in types

Attacked(b, by, sq) ==
    \/ PawnAttacks(b, by, sq)
    \/ StepAttacks(b, by, sq, knightOffsets, "n")
    \/ StepAttacks(b, by, sq, kingOffsets, "k")
    \/ LineAttacks(b, by, sq, rookDirections, {"r", "q"})
    \/ LineAttacks(b, by, sq, bishopDirections, {"b", "q"})

\* The squares holding a piece of the side to move.
OwnSquares == {s \in Squares : board[s.row][s.col].color = turn}
NoLegalMove == \A s \in OwnSquares : getLegalMoves(s) = {}

\* The castling candidates of the side to move: the king's square, the rook's
\* corner column, the square passed over and the destination.
CastlingSides ==
    {[king |-> k, rookCol |-> rc,
      pass |-> Position(k.row, IF rc = 7 THEN k.col + 1 ELSE k.col - 1),
      dest |-> Position(k.row, IF rc = 7 THEN k.col + 2 ELSE k.col - 2)] :
        k \in {s \in OwnSquares : board[s.row][s.col].type = "k"}, rc \in {0, 7}}

\* The squares strictly between king and rook of a castling candidate.
Between(cs) == {Position(cs.king.row, c) : c \in IF cs.rookCol = 7 THEN {5, 6} ELSE {1, 2, 3}}

\* King and rook have never moved and nothing stands between them.
CastlingReady(cs) ==
    /\ board[cs.king.row][cs.king.col] = Piece("k", turn, FALSE)
    /\ board[cs.king.row][cs.rookCol] = Piece("r", turn, FALSE)
    /\ \A s \in Between(cs) : board[s.row][s.col] = null

(***************************************************************************)
(* Properties                                                              *)
(***************************************************************************)
\* C1: no move that getLegalMoves returns leaves the mover's own king in
\* check on the board that move then produces (rook hop and promotion
\* included).
C1_NoSelfCheck ==
    \A s \in OwnSquares : \A d \in getLegalMoves(s) :
        ~isCheck(turn, boardAfter(board, s, d))

\* C1 witness: after an accepted move, a piece has a pseudo-legal move that
\* the filter dropped and another that it kept.
C1_Witness ==
    /\ ply > 0
    /\ \E s \in OwnSquares :
        /\ getLegalMoves(s) # {}
        /\ getPseudoLegalMoves(s, board) \ getLegalMoves(s) # {}

\* C2: a call of move whose destination is not a legal move of from (off the
\* board, empty square, wrong colour, illegal destination) returns false and
\* leaves board, turn, deadPieces and winner as they were, and the same call
\* made again is rejected again.
C2_RejectedMoveChangesNothing ==
    \A from \in Args :
        LET legalMoves == getLegalMoves(from)
            rejected == {moveWith(game, from, to, legalMoves) : to \in Args \ legalMoves}
        IN  /\ rejected = {[game |-> game, ret |-> FALSE]}
            /\ \A res \in rejected :
                   LET again == LegalMoves(res.game.board, res.game.turn, from)
                   IN  \A to \in Args \ legalMoves :
                           ~moveWith(res.game, from, to, again).ret

\* C2 witness: after an accepted move there are rejected calls of each kind:
\* from off the board, from an empty square, from an opponent's piece, and
\* from an own piece to a square that is not one of its legal moves.
C2_Witness ==
    /\ ply > 0
    /\ \E from \in Args \ Squares : ~move(game, from, Position(4, 4)).ret
    /\ \E from \in Squares : board[from.row][from.col] = null /\ ~move(game, from, Position(4, 4)).ret
    /\ \E from \in Squares : board[from.row][from.col].color = Opponent(turn)
                             /\ ~move(game, from, Position(4, 4)).ret
    /\ \E from \in OwnSquares : getLegalMoves(from) # {} /\ ~move(game, from, from).ret

\* C3: after an accepted move, a side to move that is in check and has no
\* legal move has lost: winner is the colour that just moved.  The recorded
\* game 1.f3 e5 2.g4 Qh4 is accepted move by move and ends with black the
\* winner and no legal move for any white piece.
C3_Checkmate ==
    /\ (ply > 0 /\ isCheck(turn, board) /\ NoLegalMove) => winner = Opponent(turn)
    /\ (Lines[line] = FoolsMate /\ ply = Len(FoolsMate)) =>
           /\ winner = "b"
           /\ \A s \in Squares : board[s.row][s.col].color = "w" => getLegalMoves(s) = {}

C3_Witness ==
    /\ Lines[line] = FoolsMate /\ ply = Len(FoolsMate)
    /\ turn = "w" /\ isCheck("w", board) /\ winner = "b"

\* C4: after an accepted move, a side to move that is not in check and has
\* no legal move makes the game a draw.
C4_Stalemate ==
    (ply > 0 /\ ~isCheck(turn, board) /\ NoLegalMove) => winner = "draw"

\* C4 witness: the stalemated side has a king with no destination and other
\* pieces, none of which can move.
C4_Witness ==
    /\ ply > 0 /\ ~isCheck(turn, board) /\ NoLegalMove
    /\ Cardinality(OwnSquares) > 1
    /\ winner = "draw"

\* C5: once winner is set, every call of move, whatever its arguments,
\* returns false and changes nothing, so winner never changes again.
C5_TerminalIsPermanent ==
    /\ [](winner # "null" =>
            \A from \in Args : \A to \in Args :
                move(game, from, to) = [game |-> game, ret |-> FALSE])
    /\ [][winner # "null" => (winner' = winner /\ board' = board /\ turn' = turn
                              /\ deadPieces' = deadPieces /\ ply' = ply)]_vars

\* C5 witness: a call made after the game was won.
C5_Witness == winner \in {"w", "b"} /\ ply > 0

\* C6: a call that returns true moves a piece of the side that was to move and
\* flips turn; no other call changes turn; so white is to move exactly after
\* an even number of accepted moves.
C6_TurnAlternates ==
    /\ []((turn = "w") <=> (ply % 2 = 0))
    /\ [][\/ /\ ply' = ply + 1
             /\ turn' = Opponent(turn)
             /\ \E from \in Squares, to \in Squares :
                    /\ board[from.row][from.col].color = turn
                    /\ board'[from.row][from.col] = null
                    /\ board'[to.row][to.col].color = turn
          \/ /\ ply' = ply
             /\ turn' = turn]_vars

C6_Witness == ply = 3 /\ turn = "b"

\* C7: with king and rook unmoved, the squares between them empty and the
\* king's square, the square it passes and its destination not attacked,
\* castling is accepted; the king lands on col 6 (col 2), the rook goes from
\* col 7 to col 5 (col 0 to col 3) on the same row, the corner is left empty
\* and both pieces have hasMoved set.
C7_CastlingAccepted ==
    \A cs \in CastlingSides :
        (/\ CastlingReady(cs)
         /\ \A s \in {cs.king, cs.pass, cs.dest} : ~Attacked(board, Opponent(turn), s))
        => LET res == move(game, cs.king, cs.dest)
               b == res.game.board
               row == cs.king.row
           IN  /\ res.ret
               /\ b[row][IF cs.rookCol = 7 THEN 6 ELSE 2] = Piece("k", turn, TRUE)
               /\ b[row][IF cs.rookCol = 7 THEN 5 ELSE 3] = Piece("r", turn, TRUE)
               /\ b[row][cs.rookCol] = null
               /\ b[row][cs.king.col] = null
               /\ \A r \in Rows, c \in Cols :
                      (r # row \/ c \notin {cs.king.col, cs.rookCol, cs.dest.col,
                                            IF cs.rookCol = 7 THEN 5 ELSE 3})
                      => b[r][c] = board[r][c]

\* C7 witness: a king that has just castled, with the rook beside it.
C7_Witness ==
    /\ ply > 0
    /\ \E r \in {0, 7} :
        \/ board[r][2] = Piece("k", Opponent(turn), TRUE) /\ board[r][3] = Piece("r", Opponent(turn), TRUE)
           /\ board[r][0] = null /\ Lines[line][ply] = M(r, 4, r, 2)
        \/ board[r][6] = Piece("k", Opponent(turn), TRUE) /\ board[r][5] = Piece("r", Opponent(turn), TRUE)
           /\ board[r][7] = null /\ Lines[line][ply] = M(r, 4, r, 6)

\* C8: a two-column king move is never among the legal moves, and move
\* rejects it, when the king is in check, when the square it passes is
\* attacked, or when its destination is attacked on the board with the rook
\* already hopped.
C8_NoCastlingOutOfThroughInto ==
    \A cs \in CastlingSides :
        (/\ cs.dest \in getPseudoLegalMoves(cs.king, board)
         /\ \/ Attacked(board, Opponent(turn), cs.king)
            \/ Attacked(board, Opponent(turn), cs.pass)
            \/ Attacked(boardAfter(board, cs.king, cs.dest), Opponent(turn), cs.dest))
        => /\ cs.dest \notin getLegalMoves(cs.king)
           /\ move(game, cs.king, cs.dest) = [game |-> game, ret |-> FALSE]

\* C8 witnesses: a castling candidate refused for each of the three reasons.
OfferedCastling(cs) == cs.dest \in getPseudoLegalMoves(cs.king, board)

C8_Witness ==
    /\ ply > 0
    /\ \E cs \in CastlingSides :
        /\ OfferedCastling(cs)
        /\ ~Attacked(board, Opponent(turn), cs.king)
        /\ Attacked(board, Opponent(turn), cs.pass)
        /\ ~Attacked(boardAfter(board, cs.king, cs.dest), Opponent(turn), cs.dest)

\* C9 as claimed: castling is rejected when any square strictly between king
\* and rook is attacked, col 1 of the queenside included.
C9_AnyBetweenSquareAttacked ==
    \A cs \in CastlingSides :
        (\E s \in Between(cs) : Attacked(board, Opponent(turn), s))
        => ~move(game, cs.king, cs.dest).ret

\* C9 as amended: castling is rejected when a square the king crosses or lands
\* on (cols 5-6 kingside, cols 2-3 queenside) is attacked.
C9_KingPathAttacked ==
    \A cs \in CastlingSides :
        (\E s \in {cs.pass, cs.dest} : Attacked(board, Opponent(turn), s))
        => ~move(game, cs.king, cs.dest).ret

\* C9 witness: a castling candidate whose destination alone is attacked.
C9_Witness ==
    /\ ply > 0
    /\ \E cs \in CastlingSides :
        /\ OfferedCastling(cs)
        /\ ~Attacked(board, Opponent(turn), cs.king)
        /\ ~Attacked(board, Opponent(turn), cs.pass)
        /\ Attacked(board, Opponent(turn), cs.dest)

\* C10: an accepted pawn move to row 0 or row 7 leaves a queen of the pawn's
\* colour with hasMoved set on the destination, and the outcome of that move
\* is the one of the board with the queen; no pawn ever stands on row 0 or 7.
C10_PromotionToQueen ==
    /\ \A c \in Cols : board[0][c].type # "p" /\ board[7][c].type # "p"
    /\ \A s \in OwnSquares : \A d \in getLegalMoves(s) :
        (board[s.row][s.col].type = "p" /\ d.row \in {0, 7}) =>
            LET g == move(game, s, d).game
                stuck == \A s2 \in Squares : LegalMoves(g.board, g.turn, s2) = {}
            IN  /\ g.board[d.row][d.col] = Piece("q", turn, TRUE)
                /\ g.winner = IF ~stuck THEN winner
                              ELSE IF isCheck(g.turn, g.board) THEN turn ELSE "draw"

\* C10 witness: a pawn has just been promoted, and the new queen gives check.
C10_Witness ==
    /\ ply > 0
    /\ \E c \in Cols :
        /\ board[7][c] = Piece("q", "b", TRUE)
        /\ Lines[line][ply][2] = Position(7, c)
        /\ Len(deadPieces) > 0 /\ deadPieces[Len(deadPieces)].color = "w"
    /\ isCheck(turn, board)
    /\ Cardinality({s \in Squares : board[s.row][s.col].type = "q" /\ board[s.row][s.col].color = "b"}) = 2

\* C11: deadPieces only grows.  An accepted move onto an occupied square
\* appends the piece that stood there, always of the opponent's colour, as the
\* new last element; an accepted move onto an empty square (castling included)
\* and every rejected move leave deadPieces as it was; no step removes,
\* reorders or alters an element.
C11_DeadPiecesOnlyGrows ==
    /\ [](\A s \in OwnSquares :
            LET legalMoves == getLegalMoves(s) IN
            /\ \A d \in legalMoves :
                   LET target == board[d.row][d.col]
                       dead == moveWith(game, s, d, legalMoves).game.deadPieces
                   IN  IF target # null
                       THEN target.color = Opponent(turn) /\ dead = Append(deadPieces, target)
                       ELSE dead = deadPieces
            /\ \A d \in Probes(s) \ legalMoves :
                   moveWith(game, s, d, legalMoves).game.deadPieces = deadPieces)
    /\ [][/\ Len(deadPieces') \in {Len(deadPieces), Len(deadPieces) + 1}
          /\ SubSeq(deadPieces', 1, Len(deadPieces)) = deadPieces
          /\ ply' = ply => deadPieces' = deadPieces]_vars

\* C11 witness: pieces of both colours have been captured, the side to move
\* can capture again and can castle.
C11_Witness ==
    /\ Len(deadPieces) >= 2
    /\ {deadPieces[i].color : i \in DOMAIN deadPieces} = {"w", "b"}
    /\ \E s \in OwnSquares : \E d \in getLegalMoves(s) : board[d.row][d.col] # null
    /\ \E s \in OwnSquares : \E d \in getLegalMoves(s) :
           board[s.row][s.col].type = "k" /\ Abs(d.col - s.col) > 1

\* The kings of one colour on a board, and in a list of captured pieces.
KingsOn(b, color) == {s \in Squares : b[s.row][s.col].type = "k" /\ b[s.row][s.col].color = color}
KingsIn(dead) == {i \in DOMAIN dead : dead[i].type = "k"}

\* C12: every state, terminal ones included, and every state an accepted move
\* leads to, has exactly one white king and exactly one black king on the
\* board and no king among the captured pieces.
C12_OneKingEach ==
    /\ \A color \in {"w", "b"} : Cardinality(KingsOn(board, color)) = 1
    /\ KingsIn(deadPieces) = {}
    /\ \A s \in OwnSquares :
           LET legalMoves == getLegalMoves(s) IN
           \A d \in legalMoves : \A g \in {moveWith(game, s, d, legalMoves).game} :
               /\ \A color \in {"w", "b"} : Cardinality(KingsOn(g.board, color)) = 1
               /\ KingsIn(g.deadPieces) = {}

\* C12 witness: a game that has ended, with pieces captured and a king in check.
C12_Witness ==
    /\ winner \in {"w", "b"}
    /\ Len(deadPieces) > 0
    /\ \E k \in KingsOn(board, turn) : Attacked(board, Opponent(turn), k)

\* The side to move of game g has a legal move; its king is attacked.
CanMove(g) == \E s \in Squares : LegalMoves(g.board, g.turn, s) # {}
KingAttacked(g) == \E k \in KingsOn(g.board, g.turn) : Attacked(g.board, Opponent(g.turn), k)

Outcome(g) ==
    /\ (g.winner = "null") <=> CanMove(g)
    /\ g.winner \in {"w", "b"} => g.winner = Opponent(g.turn) /\ KingAttacked(g)
    /\ g.winner = "draw" => ~KingAttacked(g)

\* C13: in every state, and in every state an accepted move leads to, winner
\* is null exactly when the side to move has a legal move; a winner that is a
\* colour is the opposite of turn and the side to move is in check; with
\* winner 'draw' the side to move is not in check.
C13_WinnerIffNoLegalMove ==
    /\ Outcome(game)
    /\ \A s \in OwnSquares :
           LET legalMoves == getLegalMoves(s) IN
           \A d \in legalMoves : \A g \in {moveWith(game, s, d, legalMoves).game} : Outcome(g)

\* C13 witness: white has won, black is to move, in check, without a move.
C13_Witness ==
    /\ winner = "w" /\ turn = "b" /\ ply > 0
    /\ KingAttacked(game) /\ ~CanMove(game)

\* C14: in a new game white is to move and the legal moves of the white pawn
\* on (6, c) are exactly (5, c) and (4, c), for every column c.
C14_WhitePawnsAtStart ==
    ply = 0 =>
        /\ turn = "w"
        /\ \A c \in Cols : getLegalMoves(Position(6, c)) = {Position(5, c), Position(4, c)}

C14_Witness ==
    /\ ply = 0 /\ turn = "w"
    /\ \A c \in Cols : board[6][c] = Piece("p", "w", FALSE) /\ Cardinality(getLegalMoves(Position(6, c))) = 2

\* C15 as claimed: in the starting position the legal moves of the black pawn
\* on (1, c) are exactly (2, c) and (3, c).
C15_BlackPawnsAtStart ==
    ply = 0 =>
        \A c \in Cols : getLegalMoves(Position(1, c)) = {Position(2, c), Position(3, c)}

\* C15 as amended: in the starting position white is to move, so
\* getLegalMoves of the black pawn on (1, c) is empty; its pseudo-legal moves
\* are exactly (2, c) and (3, c), and these are its legal moves after any
\* first move of white.
C15_BlackPawnsOnceBlackToMove ==
    ply = 0 =>
        /\ \A c \in Cols :
               /\ getLegalMoves(Position(1, c)) = {}
               /\ getPseudoLegalMoves(Position(1, c), board) = {Position(2, c), Position(3, c)}
        /\ \A s \in OwnSquares :
               LET legalMoves == getLegalMoves(s) IN
               \A d \in legalMoves :
                   LET g == moveWith(game, s, d, legalMoves).game IN
                   \A c \in Cols :
                       LegalMoves(g.board, g.turn, Position(1, c)) = {Position(2, c), Position(3, c)}

\* C15 witness: white has made its first move and every black pawn has its two
\* forward moves.
C15_Witness ==
    /\ ply = 1 /\ turn = "b"
    /\ \A c \in Cols : getLegalMoves(Position(1, c)) = {Position(2, c), Position(3, c)}

\* The board with the piece of s put on d and s emptied, nothing else.
Moved(b, s, d) ==
    [r \in Rows |-> [c \in Cols |->
        IF r = d.row /\ c = d.col THEN b[s.row][s.col]
        ELSE IF r = s.row /\ c = s.col THEN null
        ELSE b[r][c]]]

\* The king of color stands on board b and is not attacked.
KingSafeOn(b, color) ==
    /\ KingsOn(b, color) # {}
    /\ \A k \in KingsOn(b, color) : ~Attacked(b, Opponent(color), k)

\* C16: for every square s holding a piece of the side to move, getLegalMoves(s)
\* is the set of pseudo-legal destinations d of s such that, with the piece
\* moved from s to d, the mover's king is not attacked; a two-column king move
\* needs in addition a king that is not attacked where it stands nor on the
\* square it passes.
C16_LegalIsFilteredPseudoLegal ==
    \A s \in OwnSquares :
        LET legalMoves == getLegalMoves(s)
            pseudoMoves == getPseudoLegalMoves(s, board)
            piece == board[s.row][s.col]
        IN  /\ legalMoves \subseteq pseudoMoves
            /\ \A d \in pseudoMoves :
                   LET through == Position(s.row, IF d.col > s.col THEN s.col + 1 ELSE s.col - 1)
                   IN  (d \in legalMoves) <=>
                           /\ KingSafeOn(Moved(board, s, d), turn)
                           /\ (piece.type = "k" /\ Abs(d.col - s.col) > 1) =>
                                  /\ KingSafeOn(board, turn)
                                  /\ KingSafeOn(Moved(board, s, through), turn)

\* C16 witness: the side to move is in check; one of its pieces has a move that
\* is kept and a move that is dropped, and its king has a move that is dropped.
C16_Witness ==
    /\ ply > 0 /\ KingAttacked(game)
    /\ \E s \in OwnSquares :
        /\ getLegalMoves(s) # {}
        /\ getPseudoLegalMoves(s, board) \ getLegalMoves(s) # {}
    /\ \E k \in KingsOn(board, turn) : getPseudoLegalMoves(k, board) \ getLegalMoves(k) # {}

\* C17: getLegalMoves(s) is empty when s is off the board, when s is empty and
\* when s holds a piece of the side that is not to move; getPiece is null for
\* every coordinate off the board.
C17_EmptyResultCases ==
    /\ \A s \in Args :
           (IF s \in Squares
            THEN board[s.row][s.col] = null \/ board[s.row][s.col].color # turn
            ELSE TRUE)
           => getLegalMoves(s) = {}
    /\ \A s \in Args \ Squares : getPiece(s) = null

\* C17 witness: in a game under way, a piece of the side not to move that has
\* pseudo-legal moves, an empty square and a piece of the side to move that
\* can move.
C17_Witness ==
    /\ ply > 0 /\ winner = "null"
    /\ \E s \in Squares : board[s.row][s.col].color = Opponent(turn)
                          /\ getPseudoLegalMoves(s, board) # {} /\ getLegalMoves(s) = {}
    /\ \E s \in Squares : board[s.row][s.col] = null /\ getLegalMoves(s) = {}
    /\ \E s \in OwnSquares : getLegalMoves(s) # {}

\* C18: getFen of a new game is
\* "rnbqkbnr/pppppppp/8/8/8/8/PPPPPPPP/RNBQKBNR w - - 0 1"; getFen reads the
\* state and writes nothing, so a second call returns the same string.
C18_FenOfNewGame ==
    ply = 0 => getFen(game) = "rnbqkbnr/pppppppp/8/8/8/8/PPPPPPPP/RNBQKBNR w - - 0 1"

C18_Witness ==
    /\ ply = 0 /\ board = createInitialBoard
    /\ Len(getFen(game)) = 53

\* The standard back rank, from column 0 (file a) to column 7 (file h).
StandardBackRank == <<"r", "n", "b", "q", "k", "b", "n", "r">>

\* C19: a new game has the black back rank r n b q k b n r on row 0, black
\* pawns on row 1, white pawns on row 6, the white back rank on row 7, rows 2
\* to 5 empty, hasMoved false on every piece, white to move, no captured piece
\* and winner null.
C19_InitialLayout ==
    ply = 0 =>
        /\ \A c \in Cols :
               /\ board[0][c] = [type |-> StandardBackRank[c + 1], color |-> "b", hasMoved |-> FALSE]
               /\ board[1][c] = [type |-> "p", color |-> "b", hasMoved |-> FALSE]
               /\ \A r \in 2 .. 5 : board[r][c] = null
               /\ board[6][c] = [type |-> "p", color |-> "w", hasMoved |-> FALSE]
               /\ board[7][c] = [type |-> StandardBackRank[c + 1], color |-> "w", hasMoved |-> FALSE]
        /\ turn = "w"
        /\ deadPieces = <<>>
        /\ winner = "null"

C19_Witness ==
    /\ ply = 0 /\ turn = "w"
    /\ board[7][4].type = "k" /\ board[0][3].type = "q"
    /\ Cardinality({s \in Squares : board[s.row][s.col] # null}) = 32

\* No move or restart message is in flight.
Quiescent == \A p \in Players : wire[p] = <<>>

\* C20: in a connected session with in-order, loss-free delivery, whenever no
\* move or restart message is in flight both players' engines hold the same
\* board, side to move and outcome.
C20_EnginesInSync ==
    Quiescent =>
        /\ app["w"].game.board = app["b"].game.board
        /\ app["w"].game.turn = app["b"].game.turn
        /\ app["w"].game.winner = app["b"].game.winner

\* C20 witness: white's move and black's restart have crossed on the data
\* channel and both have been delivered: white holds the starting position,
\* black the position after white's move.
C20_Witness ==
    /\ mode = "p2p" /\ Quiescent
    /\ budget.moves = 1 /\ budget.restarts = 1
    /\ app["w"].game = constructor
    /\ app["b"].game.turn = "b"
    /\ app["b"].game.board # createInitialBoard

\* The position, and the positions one accepted move further.
PositionsAhead ==
    {board} \cup UNION {{boardAfter(board, s, d) : d \in getLegalMoves(s)} : s \in OwnSquares}

\* The boards the engine simulates and more: the position, and the board after
\* any one pseudo-legal move of either colour, made as the filter makes it.
BoardsTried ==
    {board} \cup UNION {{Moved(board, s, d) : d \in getPseudoLegalMoves(s, board)} :
                          s \in {x \in Squares : board[x.row][x.col] # null}}

TypeSquares(b, types) == {s \in Squares : b[s.row][s.col].type \in types}
IsEmpty(b, pos) == pos \in Squares /\ b[pos.row][pos.col] = null
Ahead(b, s, n) == Position(s.row + (IF b[s.row][s.col].color = "w" THEN -n ELSE n), s.col)

\* C25: in every reachable position a pawn's pseudo-legal moves contain its
\* two-step forward square exactly when the pawn has hasMoved = false and
\* both the one-step and the two-step square are empty.
C25_PawnDoubleStep ==
    \A b \in PositionsAhead : \A s \in TypeSquares(b, {"p"}) :
        (Ahead(b, s, 2) \in getPseudoLegalMoves(s, b))
        <=> (~b[s.row][s.col].hasMoved /\ IsEmpty(b, Ahead(b, s, 1)) /\ IsEmpty(b, Ahead(b, s, 2)))

\* C25 witness: an unmoved pawn with a piece right in front of it and the
\* square behind that piece empty, a pawn that has moved with two empty squares
\* ahead, and an unmoved pawn that can step two squares.
C25_Witness ==
    /\ ply > 0
    /\ \E s \in TypeSquares(board, {"p"}) :
           ~board[s.row][s.col].hasMoved /\ ~IsEmpty(board, Ahead(board, s, 1))
           /\ IsEmpty(board, Ahead(board, s, 2))
    /\ \E s \in TypeSquares(board, {"p"}) :
           board[s.row][s.col].hasMoved /\ IsEmpty(board, Ahead(board, s, 1))
           /\ IsEmpty(board, Ahead(board, s, 2))
    /\ \E s \in TypeSquares(board, {"p"}) : Ahead(board, s, 2) \in getPseudoLegalMoves(s, board)

\* C26: a pawn's destinations lie towards row 0 if it is white and towards
\* row 7 if it is black; those in its own column are empty squares, the others
\* are the diagonal neighbours and hold an enemy piece.  So no accepted pawn
\* move lands diagonally on an empty square or captures straight ahead.
C26_PawnDestinations ==
    /\ \A b \in PositionsAhead : \A s \in TypeSquares(b, {"p"}) :
        LET color == b[s.row][s.col].color IN
        \A d \in getPseudoLegalMoves(s, b) :
               /\ d \in Squares
               /\ IF color = "w" THEN d.row < s.row ELSE d.row > s.row
               /\ IF d.col = s.col
                  THEN b[d.row][d.col] = null
                  ELSE /\ Abs(d.col - s.col) = 1 /\ Abs(d.row - s.row) = 1
                       /\ b[d.row][d.col].color = Opponent(color)
    /\ \A s \in TypeSquares(board, {"p"}) \cap OwnSquares : \A d \in getLegalMoves(s) :
           \A g \in {move(game, s, d).game} :
               /\ (d.col # s.col) <=> (board[d.row][d.col] # null)
               /\ (d.col # s.col) <=> (g.deadPieces # deadPieces)

\* C26 witness: a white pawn on row 3 beside a black pawn that has just made
\* its two-square step; the white pawn's only move is straight ahead.
C26_Witness ==
    /\ ply > 0 /\ turn = "w"
    /\ \E s \in TypeSquares(board, {"p"}) : \E c \in {s.col - 1, s.col + 1} \cap Cols :
        /\ s.row = 3 /\ board[s.row][s.col].color = "w"
        /\ board[3][c] = Piece("p", "b", TRUE) /\ board[2][c] = null /\ board[1][c] = null
        /\ Lines[line][ply] = M(1, c, 3, c)
        /\ getLegalMoves(s) = {Position(2, s.col)}

\* C27: the pseudo-legal moves of a king contain the castling move to col 6
\* exactly when the king has not moved, an unmoved rook of its own colour
\* stands on col 7 of its row and cols 5 and 6 of that row are empty; and the
\* castling move to col 2 exactly when the king has not moved, an unmoved rook
\* of its own colour stands on col 0 and cols 1 to 3 are empty.  A castling
\* move is a king move of two columns.
C27_CastlingOffered ==
    \A b \in PositionsAhead : \A k \in TypeSquares(b, {"k"}) :
        LET king == b[k.row][k.col]
            pseudoMoves == getPseudoLegalMoves(k, b)
            offered(col) == Position(k.row, col) \in pseudoMoves /\ Abs(col - k.col) > 1
        IN  /\ offered(6) <=> /\ ~king.hasMoved
                              /\ b[k.row][7] = [type |-> "r", color |-> king.color, hasMoved |-> FALSE]
                              /\ \A c \in {5, 6} : b[k.row][c] = null
            /\ offered(2) <=> /\ ~king.hasMoved
                              /\ b[k.row][0] = [type |-> "r", color |-> king.color, hasMoved |-> FALSE]
                              /\ \A c \in {1, 2, 3} : b[k.row][c] = null
            /\ \A d \in pseudoMoves : Abs(d.col - k.col) > 1 => d.row = k.row /\ d.col \in {2, 6}

\* C27 witness: an unmoved king with its unmoved rook on col 7, col 5 empty
\* and col 6 occupied, so that no castling move is offered; the other king is
\* offered one.
C27_Witness ==
    /\ ply > 0
    /\ \E k \in TypeSquares(board, {"k"}) :
        /\ ~board[k.row][k.col].hasMoved /\ ~board[k.row][7].hasMoved /\ board[k.row][7].type = "r"
        /\ board[k.row][5] = null /\ board[k.row][6] # null
        /\ Position(k.row, 6) \notin getPseudoLegalMoves(k, board)
    /\ \E k \in TypeSquares(board, {"k"}) : \E d \in getPseudoLegalMoves(k, board) : Abs(d.col - k.col) > 1

Sign(x) == IF x < 0 THEN -1 ELSE IF x > 0 THEN 1 ELSE 0
Max(x, y) == IF x > y THEN x ELSE y

\* Square d lies on a line from s that a piece of the given type slides along,
\* with only empty squares between s and d.
ClearLine(b, type, s, d) ==
    LET dr == d.row - s.row
        dc == d.col - s.col
    IN  /\ d # s
        /\ \/ type \in {"r", "q"} /\ (dr = 0 \/ dc = 0)
           \/ type \in {"b", "q"} /\ Abs(dr) = Abs(dc)
        /\ \A n \in 1 .. (Max(Abs(dr), Abs(dc)) - 1) :
               b[s.row + n * Sign(dr)][s.col + n * Sign(dc)] = null

\* C28: the pseudo-legal destinations of a rook, bishop or queen are, along
\* each of its direction vectors, the consecutive empty squares up to the first
\* occupied square or the edge, and that first occupied square if it holds an
\* enemy piece; nothing beyond a blocker.
C28_SlidingMoves ==
    \A b \in BoardsTried : \A s \in TypeSquares(b, {"r", "b", "q"}) :
        getPseudoLegalMoves(s, b) =
            {d \in Squares : /\ ClearLine(b, b[s.row][s.col].type, s, d)
                             /\ b[d.row][d.col].color # b[s.row][s.col].color}

\* C28 witness: a queen that can capture along a file or rank, a sliding piece
\* that can capture along a diagonal, and a rook shut in by its own pieces.
C28_Witness ==
    /\ ply > 0
    /\ \E s \in TypeSquares(board, {"q"}) : \E d \in getPseudoLegalMoves(s, board) :
           board[d.row][d.col] # null /\ (d.row = s.row \/ d.col = s.col)
    /\ \E s \in TypeSquares(board, {"b", "q"}) : \E d \in getPseudoLegalMoves(s, board) :
           board[d.row][d.col] # null /\ d.row # s.row /\ d.col # s.col
    /\ \E s \in TypeSquares(board, {"r"}) : getPseudoLegalMoves(s, board) = {}

\* The on-board squares at the given offsets from s that hold no piece of the
\* colour of the piece on s.
OffsetSquares(b, s, offsets) ==
    {d \in Squares : /\ <<d.row - s.row, d.col - s.col>> \in offsets
                     /\ b[d.row][d.col].color # b[s.row][s.col].color}

\* C29: every pseudo-legal destination of every piece is a square of the board
\* that holds no piece of the mover's colour; a knight's destinations, and a
\* king's one-step destinations, are exactly the on-board squares at the eight
\* offsets that are empty or hold an enemy piece.
C29_OffsetMoves ==
    \A b \in BoardsTried :
        /\ \A s \in Squares : \A d \in getPseudoLegalMoves(s, b) :
               d \in Squares /\ b[d.row][d.col].color # b[s.row][s.col].color
        /\ \A s \in TypeSquares(b, {"n"}) :
               getPseudoLegalMoves(s, b) =
                   OffsetSquares(b, s, {<<-2, -1>>, <<-2, 1>>, <<-1, -2>>, <<-1, 2>>,
                                        <<1, -2>>, <<1, 2>>, <<2, -1>>, <<2, 1>>})
        /\ \A s \in TypeSquares(b, {"k"}) :
               {d \in getPseudoLegalMoves(s, b) : Abs(d.col - s.col) <= 1} =
                   OffsetSquares(b, s, {<<-1, -1>>, <<-1, 0>>, <<-1, 1>>, <<0, -1>>,
                                        <<0, 1>>, <<1, -1>>, <<1, 0>>, <<1, 1>>})

\* C29 witness: a knight with all eight squares on the board, some of them
\* holding own pieces and one an enemy piece.
C29_Witness ==
    /\ ply > 0
    /\ \E s \in TypeSquares(board, {"n"}) :
        /\ s.row \in 2 .. 5 /\ s.col \in 2 .. 5
        /\ Cardinality(getPseudoLegalMoves(s, board)) < 8
        /\ \E d \in getPseudoLegalMoves(s, board) : board[d.row][d.col] # null

\* C30: isCheck(color, b) is true exactly when b has no king of that colour or
\* the king's square is attacked by an enemy piece: a pawn on a diagonal
\* towards the king's side, a knight a jump away, the enemy king beside it, a
\* rook, bishop or queen on an unobstructed line.
C30_IsCheckIsAttack ==
    \A b \in BoardsTried : \A color \in {"w", "b"} :
        isCheck(color, b) <=>
            \/ KingsOn(b, color) = {}
            \/ \E k \in KingsOn(b, color) : Attacked(b, Opponent(color), k)

\* C30 witness: the king of the side to move is attacked, so one of the boards
\* tried has no king of that colour; on another the attack is parried, and on
\* another the king has stepped onto a square that is attacked as well.
C30_Witness ==
    /\ ply > 0 /\ KingAttacked(game)
    /\ \E b \in BoardsTried : KingsOn(b, turn) = {} /\ isCheck(turn, b)
    /\ \E b \in BoardsTried : KingsOn(b, turn) # {} /\ ~isCheck(turn, b)
    /\ \E b \in BoardsTried : \E k \in KingsOn(b, turn) :
           k \notin KingsOn(board, turn) /\ isCheck(turn, b)

\* C24: the queries leave board, turn, deadPieces and winner unchanged.  The
\* only query that writes to a board is the filter of getLegalMoves, which
\* isCheckMate, isStaleMate and hasNoMoves call; every write of it goes to a
\* row array allocated by cloneBoard, so after each candidate the live rows
\* hold what they held, and the filter decides as it does on board values.
C24_QueriesChangeNothing ==
    \A s \in OwnSquares : \A m \in getPseudoLegalMoves(s, board) :
        \A f \in {filterCallback(board, s, m)} :
        /\ boardIn(f.heap, liveBoard) = board
        /\ f.ret = keepsKingSafe(board, board[s.row][s.col], s, m)

\* C24 witness: a castling candidate is simulated on two clones, both of them
\* written to.
C24_Witness ==
    /\ ply > 0
    /\ \E s \in OwnSquares : \E m \in getPseudoLegalMoves(s, board) :
        LET f == filterCallback(board, s, m) IN
        /\ board[s.row][s.col].type = "k" /\ Abs(m.col - s.col) > 1
        /\ boardIn(f.heap, f.newBoard) # board
        /\ boardIn(f.heap, [r \in Rows |-> 2 * BoardSize + r]) # board

\* The move messages in flight towards player p.
MovesInFlight(p) == {wire[p][i] : i \in {j \in 1 .. Len(wire[p]) : wire[p][j].type = "move"}}

\* C23: a square encoded for the socket as file letter and rank digit decodes
\* to the same square, no two squares have the same encoding, and a move sent
\* by sendOnlineMove is decoded and shown by the receiver as the squares the
\* sender moved between.
C23_EncodingRoundTrip ==
    /\ \A s \in Squares :
        /\ posToAlgebraic(s)[1] \in {"a", "b", "c", "d", "e", "f", "g", "h"}
        /\ posToAlgebraic(s)[2] \in {"1", "2", "3", "4", "5", "6", "7", "8"}
        /\ algebraicToPos(posToAlgebraic(s)) = s
    /\ \A s, t \in Squares : posToAlgebraic(s) = posToAlgebraic(t) => s = t
    /\ \A from, to \in Clicks :
        LET msg == sendOnlineMove(from, to, "")
        IN  /\ algebraicToPos(msg.data.from) = from
            /\ algebraicToPos(msg.data.to) = to
    /\ mode = "online" =>
        \A p \in Players : \A sq \in Squares :
            LET res == handleSquareClick(app[p], p, sq, TRUE) IN
            \A i \in 1 .. Len(res.sent) :
                /\ algebraicToPos(res.sent[i].data.from) = app[p].selected
                /\ algebraicToPos(res.sent[i].data.to) = sq
                /\ handleWebSocketMessage(app[Opponent(p)], res.sent[i]).lastMove
                       = res.app.lastMove

\* C23 witness: a move is on its way over the socket, and the receiver decodes
\* it to the squares of the sender's last move.
C23_Witness ==
    /\ mode = "online"
    /\ \E p \in Players : \E msg \in MovesInFlight(p) :
        /\ app[Opponent(p)].lastMove # nullMove
        /\ algebraicToPos(msg.data.from) = app[Opponent(p)].lastMove.from
        /\ algebraicToPos(msg.data.to) = app[Opponent(p)].lastMove.to
        /\ msg.data.from # msg.data.to

\* The squares a move message names, and the receiver's state once its
\* handler has run.
SquaresOf(msg) ==
    IF mode = "online"
    THEN [from |-> algebraicToPos(msg.data.from), to |-> algebraicToPos(msg.data.to)]
    ELSE [from |-> msg.from, to |-> msg.to]
Received(a, msg) == IF mode = "online" THEN handleWebSocketMessage(a, msg) ELSE onmessage(a, msg)

\* C22: a move the engine rejects is a no-op of the session: a click whose
\* move is rejected sends no message and leaves the last-move marker and the
\* move log as they were, and so does a received move message that the engine
\* rejects.
C22_RejectedMoveIsNoOp ==
    /\ \A p \in Players : \A sq \in Squares :
        LET a == app[p]
            res == handleSquareClick(a, p, sq, mode = "online")
        IN  (a.selected # nullPosition /\ ~move(a.game, a.selected, sq).ret) =>
                /\ res.sent = <<>>
                /\ res.app.lastMove = a.lastMove
                /\ res.app.moveHistory = a.moveHistory
                /\ res.app.game = a.game
    /\ \A p \in Players :
        (wire[p] # <<>> /\ Head(wire[p]).type = "move") =>
            LET a == app[p]
                m == SquaresOf(Head(wire[p]))
            IN  ~move(a.game, m.from, m.to).ret =>
                    /\ Received(a, Head(wire[p])).game = a.game
                    /\ Received(a, Head(wire[p])).lastMove = a.lastMove
                    /\ Received(a, Head(wire[p])).moveHistory = a.moveHistory

\* C22 witness: white has started a new game and then received black's reply
\* to the game before; the engine has rejected it and still holds the starting
\* position with white to move, yet the move is marked as the last move and
\* the log has a first entry.
C22_Witness ==
    /\ app["w"].game = constructor
    /\ app["w"].lastMove # nullMove
    /\ PieceAt(createInitialBoard, app["w"].lastMove.from).color = "b"
    /\ Len(app["w"].moveHistory) = 1
    /\ budget.restarts = 1

\* C21: a move message changes the receiver's engine only when it is the
\* opponent's colour to move there, and the piece it moves is never one of the
\* receiver's own.
C21_OneExternalMovePerTurn ==
    \A p \in Players :
        (wire[p] # <<>> /\ Head(wire[p]).type = "move") =>
            LET a == app[p]
                m == SquaresOf(Head(wire[p]))
            IN  Received(a, Head(wire[p])).game # a.game =>
                    /\ a.game.turn = Opponent(p)
                    /\ PieceAt(a.game.board, m.from).color = Opponent(p)

\* C21 witness: after the queen raid black has played Qh3 while white started
\* a new game; the message has moved white's own pawn from h2 to h3 in white's
\* new game and passed the move to black, and white has made no move.
C21_Witness ==
    /\ line = 2 /\ budget.restarts = 1 /\ budget.moves = 1
    /\ wire["w"] = <<>>
    /\ app["w"].game.turn = "b"
    /\ app["w"].game.deadPieces = <<>>
    /\ app["w"].game.board[5][7] = [type |-> "p", color |-> "w", hasMoved |-> TRUE]
    /\ app["w"].game.board[6][7] = null
    /\ app["b"].game.board[5][7].type = "q"

\* The moves of the recorded game accepted so far.
History == SubSeq(Lines[line], 1, IF ply < Len(Lines[line]) THEN ply ELSE Len(Lines[line]))
PieceCount(b) == Cardinality({s \in Squares : b[s.row][s.col] # null})

\* C36: the side that is not to move is not in check, now and after every
\* legal move, and no legal move lands on a king.
C36_IdleSideNotInCheck ==
    /\ \A k \in KingsOn(board, Opponent(turn)) : ~Attacked(board, turn, k)
    /\ KingsOn(board, Opponent(turn)) # {} /\ ~isCheck(Opponent(turn), board)
    /\ \A s \in OwnSquares : \A d \in getLegalMoves(s) :
        /\ board[d.row][d.col].type # "k"
        /\ \A k \in KingsOn(boardAfter(board, s, d), turn) :
               ~Attacked(boardAfter(board, s, d), Opponent(turn), k)

\* C36 witness: the side to move is in check and has a legal capture, and a
\* piece of it could capture with a pseudo-legal move that is not legal.
C36_Witness ==
    /\ ply > 0
    /\ \E k \in KingsOn(board, turn) : Attacked(board, Opponent(turn), k)
    /\ \E s \in OwnSquares : \E d \in getLegalMoves(s) : board[d.row][d.col] # null
    /\ \E s \in OwnSquares : board[s.row][s.col].type # "k"
                              /\ getPseudoLegalMoves(s, board) \ getLegalMoves(s) # {}

\* C37: the pieces on the board and the captured pieces are 32 together; an
\* accepted move leaves the number on the board as it is, or one less when it
\* captures.
C37_ThirtyTwoPieces ==
    /\ PieceCount(board) + Len(deadPieces) = 32
    /\ \A s \in OwnSquares : \A d \in getLegalMoves(s) :
        PieceCount(boardAfter(board, s, d))
            = PieceCount(board) - (IF board[d.row][d.col] # null THEN 1 ELSE 0)

\* C37 witness: pieces have been captured, and the side to move can capture,
\* castle or promote.
C37_Witness ==
    /\ Len(deadPieces) > 0
    /\ \E s \in OwnSquares : \E d \in getLegalMoves(s) :
        \/ board[s.row][s.col].type = "k" /\ Abs(d.col - s.col) > 1
        \/ board[s.row][s.col].type = "p" /\ d.row \in {0, 7}

\* C38: a piece with hasMoved = false stands on its square of the starting
\* position with the type and colour it had there; the piece moved last, the
\* rook of a castling and every piece after a legal move have hasMoved = true.
C38_UnmovedMeansAtHome ==
    /\ \A s \in Squares :
        (board[s.row][s.col] # null /\ ~board[s.row][s.col].hasMoved) =>
            board[s.row][s.col] = createInitialBoard[s.row][s.col]
    /\ (ply > 0 /\ ply = Len(History)) =>
        board[History[ply][2].row][History[ply][2].col].hasMoved
    /\ \A i \in 1 .. Len(History) : board[History[i][1].row][History[i][1].col] # null =>
           board[History[i][1].row][History[i][1].col].hasMoved
    /\ \A s \in OwnSquares : \A d \in getLegalMoves(s) :
        LET b == boardAfter(board, s, d) IN
        /\ b[d.row][d.col].hasMoved
        /\ \A x \in Squares : (b[x.row][x.col] # board[x.row][x.col] /\ b[x.row][x.col] # null) =>
               b[x.row][x.col].hasMoved

\* C38 witness: a rook has castled, a pawn has been promoted or a piece has
\* gone back to a square of its kind, and unmoved pieces remain.
C38_Witness ==
    /\ ply > 0
    /\ \E s \in Squares : board[s.row][s.col] # null /\ ~board[s.row][s.col].hasMoved
    /\ \/ \E r \in {0, 7} : \E c \in {3, 5} : board[r][c].type = "r" /\ board[r][c].hasMoved
       \/ \E s \in Squares : board[s.row][s.col].type = "q" /\ s.row \in {0, 7}
                             /\ board[s.row][s.col].color = (IF s.row = 0 THEN "w" ELSE "b")

\* Reading a FEN string: its characters, its fields, and the squares a rank
\* field stands for.
CharAt(str, i) == SubSeq(str, i, i)
FenDigits == {"1", "2", "3", "4", "5", "6", "7", "8"}
FenLetters == [w |-> {"P", "R", "N", "B", "Q", "K"}, b |-> {"p", "r", "n", "b", "q", "k"}]
LetterType == [P |-> "p", R |-> "r", N |-> "n", B |-> "b", Q |-> "q", K |-> "k",
               p |-> "p", r |-> "r", n |-> "n", b |-> "b", q |-> "q", k |-> "k"]
DigitValue(ch) == CHOOSE n \in 1 .. 8 : ToString(n) = ch
NoSquare == [type |-> "none", color |-> "none"]

\* The fields of str between the separators sep.
RECURSIVE SplitAt(_, _, _)
SplitAt(str, sep, field) ==
    IF str = "" THEN <<field>>
    ELSE IF Head(str) = sep THEN <<field>> \o SplitAt(Tail(str), sep, "")
    ELSE SplitAt(Tail(str), sep, field \o Head(str))

\* The squares of a rank field: a digit is that many empty squares, a letter a
\* piece; any other character makes the field unreadable.
RECURSIVE ExpandRank(_)
ExpandRank(str) ==
    IF str = "" THEN <<>>
    ELSE LET ch == Head(str)
             rest == ExpandRank(Tail(str))
         IN  IF ch \in FenDigits THEN [i \in 1 .. DigitValue(ch) |-> NoSquare] \o rest
             ELSE IF ch \in FenLetters.w THEN <<[type |-> LetterType[ch], color |-> "w"]>> \o rest
             ELSE IF ch \in FenLetters.b THEN <<[type |-> LetterType[ch], color |-> "b"]>> \o rest
             ELSE <<[type |-> "unreadable", color |-> ch]>> \o rest

RowSquares(b, r) == [i \in 1 .. BoardSize |-> [type |-> b[r][i - 1].type, color |-> b[r][i - 1].color]]
AdjacentDigits(str) ==
    \E i \in 1 .. Len(str) - 1 : CharAt(str, i) \in FenDigits /\ CharAt(str, i + 1) \in FenDigits

FenIsOf(fen, b, t) ==
    \A parts \in {SplitAt(fen, " ", "")} : \A ranks \in {SplitAt(parts[1], "/", "")} :
        /\ Len(parts) = 6
        /\ SubSeq(parts, 2, 6) = <<t, "-", "-", "0", "1">>
        /\ Len(ranks) = BoardSize
        /\ \A r \in Rows : \A squares \in {ExpandRank(ranks[r + 1])} :
            /\ Len(squares) = BoardSize
            /\ squares = RowSquares(b, r)
            /\ ~AdjacentDigits(ranks[r + 1])

\* C32: getFen is eight rank fields for rows 0 to 7 with seven separators and
\* the tail ' <turn> - - 0 1'; each field expands to the eight squares of its
\* row, upper case for white and lower case for black, and has no two digits
\* side by side.  Checked for the position and for those one move further.
C32_FenReadsBackAsBoard ==
    /\ FenIsOf(getFen(game), board, turn)
    /\ \A b \in PositionsAhead :
        FenIsOf(getFen([game EXCEPT !.board = b, !.turn = Opponent(turn)]), b, Opponent(turn))

\* C32 witness: black is to move, and the FEN has a rank field with separate
\* digits around a piece and a field that is a single 8.
C32_Witness ==
    /\ turn = "b" /\ ply > 1
    /\ LET ranks == SplitAt(SplitAt(getFen(game), " ", "")[1], "/", "") IN
       /\ \E i \in DOMAIN ranks : ranks[i] = "8"
       /\ \E i \in DOMAIN ranks : Len(ranks[i]) >= 3
              /\ \E j \in 2 .. Len(ranks[i]) - 1 :
                    /\ CharAt(ranks[i], j - 1) \in FenDigits
                    /\ CharAt(ranks[i], j) \notin FenDigits
                    /\ CharAt(ranks[i], j + 1) \in FenDigits

\* What the accepted moves so far tell: the king of colour c has left its home
\* square; the rook of the corner in column col has left it or a piece has
\* been captured on it.
HomeRow(c) == IF c = "w" THEN 7 ELSE 0
KingHasMoved(c) == \E i \in 1 .. Len(History) : History[i][1] = Position(HomeRow(c), 4)
RookGone(c, col) ==
    \E i \in 1 .. Len(History) : Position(HomeRow(c), col) \in {History[i][1], History[i][2]}

\* The two-column moves the engine has for the king on square k of board b,
\* pseudo-legal or legal.
TwoColumnMoves(b, k) ==
    {d \in getPseudoLegalMoves(k, b) \cup LegalMoves(b, b[k.row][k.col].color, k) :
        Abs(d.col - k.col) > 1}

\* C31: once a king has made an accepted move no two-column move is returned
\* for it any more, back on its home square or not; once the rook of a corner
\* has moved or been captured no castling toward that corner is offered.
\* Checked on the moves accepted so far and on every legal move from here.
C31_CastlingRightsLost ==
    /\ \A c \in {"w", "b"} : \A k \in KingsOn(board, c) :
        /\ KingHasMoved(c) => TwoColumnMoves(board, k) = {}
        /\ RookGone(c, 7) => \A d \in TwoColumnMoves(board, k) : d.col < k.col
        /\ RookGone(c, 0) => \A d \in TwoColumnMoves(board, k) : d.col > k.col
    /\ \A s \in OwnSquares : \A d \in getLegalMoves(s) :
        LET b == boardAfter(board, s, d) IN
        /\ board[s.row][s.col].type = "k" =>
               \A k \in KingsOn(b, turn) : TwoColumnMoves(b, k) = {}
        /\ \A c \in {"w", "b"} : \A col \in {0, 7} :
               Position(HomeRow(c), col) \in {s, d} =>
                   \A k \in KingsOn(b, c) : \A m \in TwoColumnMoves(b, k) :
                       (m.col > k.col) # (col = 7)

\* C31 witness: a king that has moved is back on its home square beside an
\* unmoved rook with nothing between them, or a king that has not moved has
\* nothing between it and the corner whose rook has moved and come back or
\* been captured.
C31_Witness ==
    \E c \in {"w", "b"} :
        /\ board[HomeRow(c)][4].type = "k" /\ board[HomeRow(c)][4].color = c
        /\ board[HomeRow(c)][5] = null /\ board[HomeRow(c)][6] = null
        /\ TwoColumnMoves(board, Position(HomeRow(c), 4)) = {}
        /\ \/ KingHasMoved(c) /\ board[HomeRow(c)][7] = createInitialBoard[HomeRow(c)][7]
           \/ ~KingHasMoved(c) /\ RookGone(c, 7) /\ board[HomeRow(c)][7].type = "r"
           \/ ~KingHasMoved(c) /\ RookGone(c, 7) /\ board[HomeRow(c)][7].type = "b"

\* The restart messages in flight towards player p.
RestartsTo(p) == Cardinality({i \in 1 .. Len(wire[p]) : wire[p][i].type = "restart"})

\* What a new game looks like on the screen and in the engine.
IsNewGame(a) ==
    /\ a.game.board = createInitialBoard /\ a.game.turn = "w"
    /\ a.game.deadPieces = <<>> /\ a.game.winner = "null"
    /\ a.winner = "null" /\ a.selected = nullPosition /\ a.validMoves = {}
    /\ a.lastMove = nullMove /\ a.moveHistory = <<>>

\* C33: resetGame leaves a new game: starting position, white to move, nothing
\* captured, no winner, no selection, empty move log.  It sends a restart only
\* when called for a local restart while connected; a received restart resets
\* the receiver and sends nothing, so a restart message appears on a wire only
\* when a player has pressed New Game.
C33_RestartResetsOnce ==
    /\ [](/\ \A p \in Players : IsNewGame(resetGame(app[p]))
          /\ resetGameSends(TRUE, TRUE) = <<[type |-> "restart"]>>
          /\ resetGameSends(TRUE, FALSE) = <<>>
          /\ resetGameSends(FALSE, TRUE) = <<>> /\ resetGameSends(FALSE, FALSE) = <<>>
          /\ \A p \in Players :
                (wire[p] # <<>> /\ Head(wire[p]).type = "restart") =>
                    /\ IsNewGame(Received(app[p], Head(wire[p])))
                    /\ onmessageSends(Head(wire[p])) = <<>>
          /\ RestartsTo("w") + RestartsTo("b") <= budget.restarts)
    /\ [][\A p \in Players :
             /\ RestartsTo(p)' > RestartsTo(p) =>
                    /\ budget'.restarts = budget.restarts + 1
                    /\ RestartsTo(p)' = RestartsTo(p) + 1
                    /\ IsNewGame(app'[Opponent(p)])
                    /\ wire'[Opponent(p)] = wire[Opponent(p)]
             /\ RestartsTo(p)' < RestartsTo(p) =>
                    /\ IsNewGame(app'[p])
                    /\ RestartsTo(Opponent(p))' = RestartsTo(Opponent(p))]_vars

\* C33 witness: moves have been made, a player has pressed New Game, the
\* restart has been delivered, nothing is in flight and both players have a
\* new game.
C33_Witness ==
    /\ budget.moves >= 1 /\ budget.restarts = 1
    /\ Quiescent
    /\ IsNewGame(app["w"]) /\ IsNewGame(app["b"])

\* C34: in a connected game a click changes the engine and sends a move only
\* when it is the clicking player's turn, the piece it moves is the player's
\* own, and once a winner is displayed a click does nothing.
C34_ClicksOnlyOnOwnTurn ==
    \A p \in Players : \A sq \in Squares :
        \A a \in {app[p]} : \A res \in {handleSquareClick(app[p], p, sq, mode = "online")} :
            /\ a.game.turn # p => res.app = a /\ res.sent = <<>>
            /\ a.winner # "null" => res.app = a /\ res.sent = <<>>
            /\ (res.app.game # a.game \/ res.sent # <<>>) =>
                   /\ a.game.turn = p /\ a.winner = "null"
                   /\ a.selected \in Squares
                   /\ a.game.board[a.selected.row][a.selected.col].color = p
                   /\ res.app.game.board[sq.row][sq.col].color = p
                   /\ Len(res.sent) = 1 /\ SquaresOf(res.sent[1]) = [from |-> a.selected, to |-> sq]
                   /\ \A x \in Squares :
                          (a.game.board[x.row][x.col].color = Opponent(p)
                           /\ res.app.game.board[x.row][x.col] # a.game.board[x.row][x.col])
                              => x = sq

\* C34 witness: black has mated and sees the winner; white, whose turn it is
\* in the engine, has a piece selected from before or not, and a click of
\* either player changes nothing; elsewhere a click has made a move.
C34_Witness ==
    /\ line = 3 /\ budget.moves = 1
    /\ app["b"].winner = "b" /\ app["b"].game.turn = "w"
    /\ app["w"].winner = "b" /\ app["w"].game.turn = "w"
    /\ wire["w"] = <<>>

\* A step that starts a new game for player p: p presses New Game or the
\* opponent's restart is delivered to p.  A step that delivers the server's
\* game_over to p.
RestartStep(p) ==
    \/ budget'.restarts > budget.restarts /\ IsNewGame(app'[p])
    \/ wire[p] # <<>> /\ Head(wire[p]).type = "restart" /\ wire'[p] = Tail(wire[p])
GameOverStep(p) ==
    wire[p] # <<>> /\ Head(wire[p]).type = "game_over" /\ wire'[p] = Tail(wire[p])

\* C35: once a player is shown a winner, from the engine or from a game_over
\* message, the winner stays shown and the board stays as it is until a
\* restart; in particular no move message delivered later changes either.
C35_WinnerStaysUntilRestart ==
    [][\A p \in Players :
          (app[p].winner # "null" /\ ~RestartStep(p) /\ ~GameOverStep(p)) =>
              /\ app'[p].winner = app[p].winner
              /\ app'[p].game.board = app[p].game.board]_vars

\* C35 witness: the server's game_over has been delivered to white, no new
\* game has been started, and black's queen move, delivered after it, has
\* been made on white's board and the winner is no longer shown.
C35_Witness ==
    /\ mode = "online" /\ line = 3
    /\ budget.gameOvers = 1 /\ budget.restarts = 0 /\ budget.moves = 1
    /\ wire["w"] = <<>>
    /\ app["w"].winner = "null"
    /\ app["w"].game.board[1][4].type = "q"

====
